---- MODULE Spec2Model ----
(***************************************************************************)
(* Layer navigation and remote-control input of the Tizen control-room     *)
(* application: LayerNavigationManager (layers, history, transitions),     *)
(* IframeScreenManager (embedded content), the FocusManager state that the *)
(* transitions touch, and TVRemoteInputHandler (key events, debounce).     *)
(*                                                                         *)
(* JavaScript runs one task to completion.  A task is modelled as a chain  *)
(* of steps; while a chain is running (Running, msgPc) no other task may   *)
(* start.  Tasks interleave only where the code awaits a timer, an iframe  *)
(* load or another task.                                                   *)
(***************************************************************************)
EXTENDS Integers, Sequences, FiniteSets, TLC

\* ---------------------------------------------------------------- bounds
MaxHistory == 3

\* the longest list of layer-change callbacks
MaxCallbacks == 2

\* the largest number of tiles of the dashboard
MaxScreens == 8

\* the most auto-focus timers of the dashboard pending at a time
MaxTimers == 2

\* ------------------------------------------------------------- constants
MAP == 1
CONTROL_PANEL == 2
DETAIL_SCREEN == 3

Layers == {MAP, CONTROL_PANEL, DETAIL_SCREEN}

LAYER_TO_TYPE(l) ==
    CASE l = MAP -> "map"
      [] l = CONTROL_PANEL -> "dashboard"
      [] l = DETAIL_SCREEN -> "detail"
      [] OTHER -> "undefined"

LayerTypes == {"map", "dashboard", "detail"}

TransitionState ==
    [IDLE |-> "idle", SAVING_FOCUS |-> "saving-focus", HIDING |-> "hiding",
     SHOWING |-> "showing", RESTORING_FOCUS |-> "restoring-focus",
     COMPLETE |-> "complete"]

\* Screen numbers (STT) used as inputs: 0 is the map tile M0 (and the falsy
\* "no screenSTT" parameter), 2 has no entry in SCREEN_MAPPING, 4 has one.
ScreenSTTs == {0, 2, 4}

DEFAULT_SCREEN_MAPPING == 4..11

hasScreen(stt) == stt \in DEFAULT_SCREEN_MAPPING

\* Focus values: the focused element is the body (nothing), an element that
\* is not a dashboard tile, or the dashboard tile with a given STT.
NoFocus == -2
Widget == -1
NoState == -3

\* The dashboard tiles in DOM order (data-stt of each .screen-tile).
Tiles == <<0, 4>>

TileSTTs == {Tiles[i] : i \in 1..Len(Tiles)}

VARIABLES
    \* LayerNavigationManager
    currentLayer, layerHistory, transitionState, isTransitioning,
    \* the running performTransition: position, arguments, awaiting caller
    tpc, tr, tcaller,
    \* IframeScreenManager, and the document: the content frames that are in
    \* the container (by the screen of their id, 'iframe-screen-<stt>'), and
    \* those of them whose load event has not fired yet
    iframeElement, isLoaded, currentScreenSTT, frames, loads,
    \* FocusManager, and the document: the focused element, whether the
    \* dashboard container is displayed
    fmCurrentLayer, focusStates, focused, dashboardDisplayed,
    \* TVRemoteInputHandler
    isEnabled, isProcessing, keyPc, enterTimer, hOpen, msgPc, keyListeners,
    \* FocusManager at the level of items: the document (each rendered
    \* element is displayed, hidden or removed), the tracked reference and
    \* the element that has the focus, the FocusState of each layer, the
    \* scroll offset of the dashboard, the position between Step 1 and
    \* Step 7 of a transition
    dom, currentFocusedElement, activeElement, focusStateMap, scrollTop, fstep,
    \* host platform
    isTizen,
    \* what the last step did: the call it made and how it returned, the
    \* event it delivered, the transition promise it settled
    call, ev, done,
    \* the steps of the running transition, and the push-then-pop scenario
    tlog, notified, scen,
    \* the last call of a FocusManager operation and how it returned
    fm,
    \* LayerNavigationManager: the registered layer-change callbacks, and
    \* the calls that notifyLayerChange made in the running transition
    layerChangeCallbacks, notifications,
    \* DashboardGrid: the number of tiles rendered ('screens.length'), the
    \* index of the tile that has the focus (-1: none), the number of timers
    \* of renderGrid that have not fired yet, and the last call of moveFocus
    \* or of render
    screensLength, focusedIndex, autoFocusTimers, nav,
    \* the object that the last getFocusState returned to its caller
    copy

lnmVars == <<currentLayer, layerHistory, transitionState, isTransitioning>>
transVars == <<tpc, tr, tcaller, tlog, notified>>
iframeVars == <<iframeElement, isLoaded, currentScreenSTT, frames, loads>>
focusVars == <<fmCurrentLayer, focusStates, focused, dashboardDisplayed>>
handlerVars ==
    <<isEnabled, isProcessing, keyPc, enterTimer, hOpen, msgPc, keyListeners>>
obsVars == <<call, ev, done, scen>>
itemVars ==
    <<dom, currentFocusedElement, activeElement, focusStateMap, scrollTop,
      fstep, fm>>

cbVars == <<layerChangeCallbacks, notifications>>

gridVars == <<screensLength, focusedIndex, autoFocusTimers, nav>>

vars == <<lnmVars, transVars, iframeVars, focusVars, handlerVars, isTizen,
          obsVars, itemVars, cbVars, gridVars, copy>>

\* ------------------------------------------------------------ scheduling
\* Positions of performTransition at which it is suspended in an await.
Suspended == {"idle", "awaitHide", "awaitOpen", "awaitShow"}

Running == tpc \notin Suspended

\* A new task (event, timer, call from outside) can start only when no
\* task is in the middle of its synchronous run.
Quiet == ~Running /\ msgPc = "idle"

Last(s) == s[Len(s)]

Front(s) == SubSeq(s, 1, Len(s) - 1)

NoTransition ==
    [from |-> 0, to |-> 0, isBack |-> FALSE, stt |-> 0, prev |-> 0,
     ok |-> FALSE, hist0 |-> <<>>]

Transition(from, to, isBack, stt) ==
    [from |-> from, to |-> to, isBack |-> isBack, stt |-> stt, prev |-> 0,
     ok |-> FALSE, hist0 |-> layerHistory]

NoEvent == [ch |-> "none", keyCode |-> 0, key |-> "", prevented |-> FALSE,
            accepted |-> FALSE, normalized |-> [key |-> "", keyCode |-> 0],
            override |-> "none", handler |-> "none", threw |-> FALSE]

NoCall == [op |-> "none", layer |-> 0, ret |-> "none", exits |-> 0]

Call(op, layer, ret, exits) ==
    [op |-> op, layer |-> layer, ret |-> ret, exits |-> exits]

\* a step that makes no call, delivers no event and settles no promise
Silent == call' = NoCall /\ ev' = NoEvent /\ done' = "none"


NoScen == [stage |-> "none", hist |-> <<>>]

\* ------------------------------------------------- LayerNavigationManager
\* faulty variant: a table that allows every move
canTransitionAll(fromLayer, toLayer) == TRUE

canTransition(fromLayer, toLayer) ==
    \/ fromLayer = MAP /\ toLayer \in {CONTROL_PANEL}
    \/ fromLayer = CONTROL_PANEL /\ toLayer \in {MAP, DETAIL_SCREEN}
    \/ fromLayer = DETAIL_SCREEN /\ toLayer \in {CONTROL_PANEL}

\* faulty variant: the guard is never taken
TransitionGuardOff == FALSE

\* the test 'if (this.isTransitioning)' that opens pushLayer and popLayer
TransitionGuard == isTransitioning

\* faulty variant: exit() is called on a host of either kind
handleExitAppAnyHost == IF isTizen THEN 1 ELSE 1

\* handleExitApp: the number of exit() calls made on the application
\* object (one on a Tizen host, where a failing exit() is caught; none on
\* another host)
handleExitApp == IF isTizen THEN 1 ELSE 0

\* performTransition up to its try block: the steps follow as Step* actions
performTransition(fromLayer, toLayer, isBack, stt, caller) ==
    /\ isTransitioning' = TRUE
    /\ tpc' = "saveFocus"
    /\ tr' = Transition(fromLayer, toLayer, isBack, stt)
    /\ tcaller' = caller
    /\ tlog' = <<>>
    /\ notified' = FALSE

pushLayer(layer, stt, caller) ==
    /\ IF TransitionGuard \/ layer = currentLayer
          \/ ~canTransition(currentLayer, layer)
       THEN /\ call' = Call("pushLayer", layer, "false", 0)
            /\ UNCHANGED <<isTransitioning, transVars, scen>>
       ELSE /\ Len(layerHistory) < MaxHistory
            /\ call' = Call("pushLayer", layer, "pending", 0)
            /\ performTransition(currentLayer, layer, FALSE, stt, caller)
            /\ scen' = IF currentLayer = CONTROL_PANEL /\ layer = DETAIL_SCREEN
                       THEN [stage |-> "pushing", hist |-> layerHistory]
                       ELSE NoScen
    /\ UNCHANGED <<currentLayer, layerHistory, transitionState>>

popLayer(caller) ==
    /\ IF TransitionGuard
       THEN /\ call' = Call("popLayer", 0, "false", 0)
            /\ UNCHANGED <<isTransitioning, transVars, scen>>
       ELSE IF Len(layerHistory) <= 1
       THEN /\ call' = Call("popLayer", 0, "false", handleExitApp)
            /\ UNCHANGED <<isTransitioning, transVars, scen>>
       ELSE /\ call' = Call("popLayer", 0, "pending", 0)
            /\ performTransition(currentLayer,
                                 layerHistory[Len(layerHistory) - 1],
                                 TRUE, 0, caller)
            /\ scen' = IF scen.stage = "pushed"
                       THEN [scen EXCEPT !.stage = "popping"]
                       ELSE NoScen
    /\ UNCHANGED <<currentLayer, layerHistory, transitionState>>

back(caller) == popLayer(caller)

\* LayerNavigationManager.openDetailScreen
lnmOpenDetailScreen(screenSTT, caller) ==
    IF screenSTT = 0
    THEN pushLayer(MAP, 0, caller)
    ELSE pushLayer(DETAIL_SCREEN, screenSTT, caller)

showDashboard(caller) ==
    IF currentLayer = MAP
    THEN pushLayer(CONTROL_PANEL, 0, caller)
    ELSE /\ call' = Call("showDashboard", CONTROL_PANEL, "false", 0)
         /\ UNCHANGED <<lnmVars, transVars, scen>>

\* ----------------------------------------------------- IframeScreenManager
\* closeScreen: the state of the manager after the call; hideContainer
\* removes the container from the document, and every frame in it
closeScreen(f) ==
    IF f.iframeElement = 0 THEN f
    ELSE [iframeElement |-> 0, isLoaded |-> FALSE, currentScreenSTT |-> 0,
          frames |-> {}, loads |-> {}]

\* openScreen up to the wait for the load event; only called when the
\* screen is in SCREEN_MAPPING
openScreenStart(f, stt) ==
    LET g == IF f.isLoaded THEN closeScreen(f) ELSE f
    IN  [g EXCEPT !.iframeElement = stt, !.frames = @ \cup {stt},
                  !.loads = @ \cup {stt}]

IframeState ==
    [iframeElement |-> iframeElement, isLoaded |-> isLoaded,
     currentScreenSTT |-> currentScreenSTT, frames |-> frames,
     loads |-> loads]

SetIframe(f) ==
    /\ iframeElement' = f.iframeElement
    /\ isLoaded' = f.isLoaded
    /\ currentScreenSTT' = f.currentScreenSTT
    /\ frames' = f.frames
    /\ loads' = f.loads

\* the iframe's onload handler
onload(stt) ==
    /\ isLoaded' = TRUE
    /\ currentScreenSTT' = stt
    /\ loads' = loads \ {stt}
    /\ UNCHANGED <<iframeElement, frames>>

\* ------------------------------------------------------------ FocusManager
saveFocusState(layerType) ==
    IF focused = NoFocus
    THEN focusStates
    ELSE [focusStates EXCEPT ![layerType] = focused]

\* the element focusFirstElement(layerType) leaves focused: the first tile
\* of the dashboard, the first control of the map, the content of the detail
\* layer (every layer shows at least one focusable element)
focusFirstElement(layerType) ==
    IF layerType = "dashboard" THEN Tiles[1] ELSE Widget

\* the element restoreFocusState(layerType) leaves focused: the saved one,
\* which is still in the document, or else the first one
restoreFocusState(layerType) ==
    LET state == focusStates[layerType]
    IN  IF state = NoState THEN focusFirstElement(layerType) ELSE state

\* ------------------------------------------ the steps of performTransition
\* what no step of a transition touches, except the last
StepFrame == Silent /\ UNCHANGED <<isTizen, scen, handlerVars>>

\* faulty variant: the catch block returns and no finally block follows
CatchReturns(log) ==
    /\ tpc' = "idle"
    /\ tlog' = log \o <<"throw">>

\* faulty variant: the error is swallowed and the observers are notified
CatchResumes(log) ==
    /\ tpc' = "notify"
    /\ tlog' = log \o <<"throw">>

\* the catch block only logs; the finally block follows
Catch(log) ==
    /\ tpc' = "finally"
    /\ tlog' = log \o <<"throw">>

\* Step 1: save the focus of the layer being left
StepSaveFocus ==
    /\ tpc = "saveFocus"
    /\ transitionState' = TransitionState.SAVING_FOCUS
    /\ \/ /\ focusStates' = saveFocusState(LAYER_TO_TYPE(tr.from))
          /\ tpc' = "hide"
          /\ tlog' = tlog \o <<transitionState', "save">>
       \/ /\ Catch(tlog \o <<transitionState'>>)
          /\ UNCHANGED focusStates
    /\ StepFrame
    /\ UNCHANGED <<currentLayer, layerHistory, isTransitioning, tr, tcaller,
                   notified, iframeVars, fmCurrentLayer, focused,
                   dashboardDisplayed>>
    /\ UNCHANGED itemVars
    /\ UNCHANGED copy
    /\ UNCHANGED gridVars
    /\ UNCHANGED cbVars

\* Step 2: hideLayer up to its timer (the collaborator's hide() may throw)
StepHide ==
    /\ tpc = "hide"
    /\ transitionState' = TransitionState.HIDING
    /\ \/ /\ tpc' = "awaitHide"
          /\ tlog' = tlog \o <<transitionState', "hide">>
       \/ Catch(tlog \o <<transitionState'>>)
    /\ StepFrame
    /\ UNCHANGED <<currentLayer, layerHistory, isTransitioning, tr, tcaller,
                   notified, iframeVars, focusVars>>
    /\ UNCHANGED itemVars
    /\ UNCHANGED copy
    /\ UNCHANGED gridVars
    /\ UNCHANGED cbVars

\* the element that stays focused when the container of a layer gets
\* 'display: none': an element inside it loses the focus to the body
focusAfterHide(layer) ==
    IF (layer = CONTROL_PANEL) = (focused \in TileSTTs)
    THEN NoFocus
    ELSE focused

\* the timer of hideLayer fires: the container is no longer displayed
HideDone ==
    /\ tpc = "awaitHide"
    /\ msgPc = "idle"
    /\ tpc' = "iframe"
    /\ tlog' = tlog \o <<"hidden">>
    /\ dashboardDisplayed' = (dashboardDisplayed /\ tr.from # CONTROL_PANEL)
    /\ focused' = focusAfterHide(tr.from)
    /\ StepFrame
    /\ UNCHANGED <<lnmVars, tr, tcaller, notified, iframeVars,
                   fmCurrentLayer, focusStates>>
    /\ UNCHANGED itemVars
    /\ UNCHANGED copy
    /\ UNCHANGED gridVars
    /\ UNCHANGED cbVars

\* Step 3: unload the content when leaving Detail, load it when entering
\* Detail with a screenSTT parameter
StepIframe ==
    /\ tpc = "iframe"
    /\ LET closing == tr.from = DETAIL_SCREEN
           opening == tr.to = DETAIL_SCREEN /\ tr.stt # 0
           f1 == IF closing THEN closeScreen(IframeState) ELSE IframeState
           l1 == IF closing THEN tlog \o <<"close">> ELSE tlog
       IN  IF opening /\ hasScreen(tr.stt)
           THEN /\ SetIframe(openScreenStart(f1, tr.stt))
                /\ tpc' = "awaitOpen"
                /\ tlog' = l1 \o <<"open">>
           ELSE /\ SetIframe(f1)
                /\ tpc' = "show"
                /\ tlog' = IF opening THEN l1 \o <<"open-unknown">> ELSE l1
    /\ StepFrame
    /\ UNCHANGED <<lnmVars, tr, tcaller, notified, focusVars>>
    /\ UNCHANGED itemVars
    /\ UNCHANGED copy
    /\ UNCHANGED gridVars
    /\ UNCHANGED cbVars

\* the content frame fires its load event
OpenLoaded ==
    /\ tpc = "awaitOpen"
    /\ msgPc = "idle"
    /\ onload(tr.stt)
    /\ tpc' = "show"
    /\ tlog' = tlog \o <<"loaded">>
    /\ StepFrame
    /\ UNCHANGED <<lnmVars, tr, tcaller, notified, focusVars>>
    /\ UNCHANGED itemVars
    /\ UNCHANGED copy
    /\ UNCHANGED gridVars
    /\ UNCHANGED cbVars

\* the content frame fires its error event, or the load watchdog fires
OpenFailed ==
    /\ tpc = "awaitOpen"
    /\ msgPc = "idle"
    /\ Catch(tlog)
    /\ StepFrame
    /\ UNCHANGED <<lnmVars, tr, tcaller, notified, iframeVars, focusVars>>
    /\ UNCHANGED itemVars
    /\ UNCHANGED copy
    /\ UNCHANGED gridVars
    /\ UNCHANGED cbVars

\* Step 4: showLayer up to its timer: the container is displayed, then
\* show() or render() may throw
StepShow ==
    /\ tpc = "show"
    /\ transitionState' = TransitionState.SHOWING
    /\ dashboardDisplayed' = (dashboardDisplayed \/ tr.to = CONTROL_PANEL)
    /\ \/ /\ tpc' = "awaitShow"
          /\ tlog' = tlog \o <<transitionState', "show">>
       \/ Catch(tlog \o <<transitionState'>>)
    /\ StepFrame
    /\ UNCHANGED <<currentLayer, layerHistory, isTransitioning, tr, tcaller,
                   notified, iframeVars, fmCurrentLayer, focusStates,
                   focused>>
    /\ UNCHANGED itemVars
    /\ UNCHANGED copy
    /\ UNCHANGED gridVars
    /\ UNCHANGED cbVars

\* the timer of showLayer fires
ShowDone ==
    /\ tpc = "awaitShow"
    /\ msgPc = "idle"
    /\ tpc' = "history"
    /\ tlog' = tlog \o <<"shown">>
    /\ StepFrame
    /\ UNCHANGED <<lnmVars, tr, tcaller, notified, iframeVars, focusVars>>
    /\ UNCHANGED itemVars
    /\ UNCHANGED copy
    /\ UNCHANGED gridVars
    /\ UNCHANGED cbVars

\* the history update of Step 5
updateHistory(history, toLayer, isBack) ==
    IF isBack
    THEN IF Len(history) = 0 THEN history ELSE Front(history)
    ELSE Append(history, toLayer)

\* Step 5: update the history
StepHistory ==
    /\ tpc = "history"
    /\ layerHistory' = updateHistory(layerHistory, tr.to, tr.isBack)
    /\ tpc' = "layer"
    /\ tlog' = tlog \o <<"history">>
    /\ StepFrame
    /\ UNCHANGED <<currentLayer, transitionState, isTransitioning, tr,
                   tcaller, notified, iframeVars, focusVars>>
    /\ UNCHANGED itemVars
    /\ UNCHANGED copy
    /\ UNCHANGED gridVars
    /\ UNCHANGED cbVars

\* faulty variant: Step 6 does not tell the FocusManager the new layer
StepLayerCoordinatorOnly ==
    /\ tpc = "layer"
    /\ tr' = [tr EXCEPT !.prev = currentLayer]
    /\ currentLayer' = tr.to
    /\ UNCHANGED fmCurrentLayer
    /\ tpc' = "restoreFocus"
    /\ tlog' = tlog \o <<"layer">>
    /\ StepFrame
    /\ UNCHANGED <<layerHistory, transitionState, isTransitioning, tcaller,
                   notified, iframeVars, focusStates, focused,
                   dashboardDisplayed>>
    /\ UNCHANGED itemVars
    /\ UNCHANGED copy
    /\ UNCHANGED gridVars
    /\ UNCHANGED cbVars

\* Step 6: update the current layer
StepLayer ==
    /\ tpc = "layer"
    /\ tr' = [tr EXCEPT !.prev = currentLayer]
    /\ currentLayer' = tr.to
    /\ fmCurrentLayer' = LAYER_TO_TYPE(tr.to)
    /\ tpc' = "restoreFocus"
    /\ tlog' = tlog \o <<"layer">>
    /\ StepFrame
    /\ UNCHANGED <<layerHistory, transitionState, isTransitioning, tcaller,
                   notified, iframeVars, focusStates, focused,
                   dashboardDisplayed>>
    /\ UNCHANGED itemVars
    /\ UNCHANGED copy
    /\ UNCHANGED gridVars
    /\ UNCHANGED cbVars

\* Step 7: restore the focus on the way back, focus the first element on
\* the way forward (either may throw)
StepRestoreFocus ==
    /\ tpc = "restoreFocus"
    /\ transitionState' = TransitionState.RESTORING_FOCUS
    /\ \/ /\ focused' = IF tr.isBack
                        THEN restoreFocusState(LAYER_TO_TYPE(tr.to))
                        ELSE focusFirstElement(LAYER_TO_TYPE(tr.to))
          /\ tpc' = "notify"
          /\ tlog' = tlog \o <<transitionState',
                               IF tr.isBack THEN "restore" ELSE "first">>
       \/ /\ Catch(tlog \o <<transitionState'>>)
          /\ UNCHANGED focused
    /\ StepFrame
    /\ UNCHANGED <<currentLayer, layerHistory, isTransitioning, tr, tcaller,
                   notified, iframeVars, fmCurrentLayer, focusStates,
                   dashboardDisplayed>>
    /\ UNCHANGED itemVars
    /\ UNCHANGED copy
    /\ UNCHANGED gridVars
    /\ UNCHANGED cbVars

\* the functions a collaborator registers as layer-change callbacks
Callbacks == {"f", "g"}

\* faulty variant: no try block around the callback; the first callback
\* that throws ends the loop
RECURSIVE notifyUntilThrow(_, _, _, _, _)
notifyUntilThrow(callbacks, fromLayer, toLayer, params, throwers) ==
    IF callbacks = <<>> THEN <<>>
    ELSE <<[callback |-> Head(callbacks), fromLayer |-> fromLayer,
            toLayer |-> toLayer, isBack |-> params.isBack,
            screenSTT |-> params.stt,
            threw |-> Head(callbacks) \in throwers]>>
         \o (IF Head(callbacks) \in throwers THEN <<>>
             ELSE notifyUntilThrow(Tail(callbacks), fromLayer, toLayer,
                                   params, throwers))

\* notifyLayerChange: the calls that forEach makes, in the order of the
\* list; what a callback throws is caught and logged
RECURSIVE notifyLayerChange(_, _, _, _, _)
notifyLayerChange(callbacks, fromLayer, toLayer, params, throwers) ==
    IF callbacks = <<>> THEN <<>>
    ELSE <<[callback |-> Head(callbacks), fromLayer |-> fromLayer,
            toLayer |-> toLayer, isBack |-> params.isBack,
            screenSTT |-> params.stt,
            threw |-> Head(callbacks) \in throwers]>>
         \o notifyLayerChange(Tail(callbacks), fromLayer, toLayer, params,
                              throwers)

\* 'this.notifyLayerChange(previousLayer, toLayer, params)': any of the
\* registered callbacks may throw
Notify ==
    /\ \E throwers \in SUBSET {layerChangeCallbacks[i] :
                                   i \in DOMAIN layerChangeCallbacks} :
         notifications' = notifyLayerChange(layerChangeCallbacks, tr.prev,
                                            tr.to, tr, throwers)
    /\ UNCHANGED layerChangeCallbacks

\* faulty variant: Step 8 without 'this.transitionState = COMPLETE'
StepNotifyStale ==
    /\ tpc = "notify"
    /\ notified' = TRUE
    /\ tr' = [tr EXCEPT !.ok = TRUE]
    /\ tpc' = "finally"
    /\ tlog' = tlog \o <<transitionState, "notify">>
    /\ Silent
    /\ UNCHANGED <<lnmVars, tcaller, iframeVars, focusVars, handlerVars,
                   isTizen, scen>>
    /\ UNCHANGED itemVars
    /\ UNCHANGED copy
    /\ UNCHANGED gridVars
    /\ Notify

\* Step 8: notify the observers; 'return true'
StepNotify ==
    /\ tpc = "notify"
    /\ transitionState' = TransitionState.COMPLETE
    /\ notified' = TRUE
    /\ tr' = [tr EXCEPT !.ok = TRUE]
    /\ tpc' = "finally"
    /\ tlog' = tlog \o <<transitionState', "notify">>
    /\ StepFrame
    /\ UNCHANGED <<currentLayer, layerHistory, isTransitioning, tcaller,
                   iframeVars, focusVars>>
    /\ UNCHANGED itemVars
    /\ UNCHANGED copy
    /\ UNCHANGED gridVars
    /\ Notify

\* the finally block; the promise of performTransition settles and the
\* key handler that awaits it goes on to its debounce timer
StepFinally ==
    /\ tpc = "finally"
    /\ isTransitioning' = FALSE
    /\ transitionState' = TransitionState.IDLE
    /\ tpc' = "idle"
    /\ tr' = NoTransition
    /\ tcaller' = "none"
    /\ tlog' = <<>>
    /\ notified' = FALSE
    /\ done' = IF tr.ok THEN "true" ELSE "false"
    /\ call' = NoCall
    /\ ev' = NoEvent
    /\ keyPc' = IF tcaller = "key" THEN "debounce" ELSE keyPc
    /\ scen' = IF tr.ok /\ scen.stage = "pushing"
               THEN [scen EXCEPT !.stage = "pushed"]
               ELSE NoScen
    /\ UNCHANGED <<currentLayer, layerHistory, iframeVars, focusVars,
                   isEnabled,
                   keyListeners, isProcessing, enterTimer, hOpen, msgPc,
                   isTizen>>
    /\ UNCHANGED itemVars
    /\ UNCHANGED copy
    /\ UNCHANGED gridVars
    /\ notifications' = <<>>
    /\ UNCHANGED layerChangeCallbacks

\* ------------------------------------- calls of the navigation operations
\* The navigation methods are public; a collaborator may call them at any
\* time between two tasks.
CallFrame ==
    /\ ev' = NoEvent
    /\ done' = "none"
    /\ UNCHANGED <<iframeVars, focusVars, handlerVars, isTizen>>

\* (the screenSTT option is read only on the way into Detail)
CallPushLayer ==
    /\ Quiet
    /\ \E layer \in Layers :
         \E stt \in IF layer = DETAIL_SCREEN THEN ScreenSTTs ELSE {0} :
           pushLayer(layer, stt, "api")
    /\ CallFrame
    /\ UNCHANGED itemVars
    /\ UNCHANGED copy
    /\ UNCHANGED gridVars
    /\ UNCHANGED cbVars

CallPopLayer ==
    /\ Quiet
    /\ popLayer("api")
    /\ CallFrame
    /\ UNCHANGED itemVars
    /\ UNCHANGED copy
    /\ UNCHANGED gridVars
    /\ UNCHANGED cbVars

CallShowDashboard ==
    /\ Quiet
    /\ showDashboard("api")
    /\ CallFrame
    /\ UNCHANGED itemVars
    /\ UNCHANGED copy
    /\ UNCHANGED gridVars
    /\ UNCHANGED cbVars

CallOpenDetailScreen ==
    /\ Quiet
    /\ \E stt \in ScreenSTTs : lnmOpenDetailScreen(stt, "api")
    /\ CallFrame
    /\ UNCHANGED itemVars
    /\ UNCHANGED copy
    /\ UNCHANGED gridVars
    /\ UNCHANGED cbVars

\* onLayerChange(callback): a function is appended to the list (also when
\* it is in the list already), any other value is ignored
onLayerChange ==
    /\ Quiet
    /\ \E callback \in Callbacks \cup {"noFunction"} :
         layerChangeCallbacks' =
           IF callback \in Callbacks
           THEN Append(layerChangeCallbacks, callback)
           ELSE layerChangeCallbacks
    /\ Len(layerChangeCallbacks') <= MaxCallbacks
    /\ Silent
    /\ UNCHANGED <<lnmVars, transVars, iframeVars, focusVars, handlerVars,
                   isTizen, scen, notifications>>
    /\ UNCHANGED itemVars
    /\ UNCHANGED copy
    /\ UNCHANGED gridVars

\* the list without its first entry equal to the callback
RECURSIVE spliceFirst(_, _)
spliceFirst(callbacks, callback) ==
    IF callbacks = <<>> THEN <<>>
    ELSE IF Head(callbacks) = callback THEN Tail(callbacks)
    ELSE <<Head(callbacks)>> \o spliceFirst(Tail(callbacks), callback)

\* offLayerChange(callback)
offLayerChange ==
    /\ Quiet
    /\ \E callback \in Callbacks :
         layerChangeCallbacks' = spliceFirst(layerChangeCallbacks, callback)
    /\ Silent
    /\ UNCHANGED <<lnmVars, transVars, iframeVars, focusVars, handlerVars,
                   isTizen, scen, notifications>>
    /\ UNCHANGED itemVars
    /\ UNCHANGED copy
    /\ UNCHANGED gridVars

\* --------------------------------------------------- TVRemoteInputHandler
BACK == 10009
VOLUME_UP == 447
VOLUME_DOWN == 448
ARROW_UP == 38
ARROW_DOWN == 40
ARROW_LEFT == 37
ARROW_RIGHT == 39
ENTER == 13
ESCAPE == 27
NUM_0 == 48

\* a key name that is not in a table yields this (JavaScript's undefined)
Undefined == -1

KEY_NAME_MAP(key) ==
    CASE key = "ArrowUp" -> ARROW_UP
      [] key = "ArrowDown" -> ARROW_DOWN
      [] key = "ArrowLeft" -> ARROW_LEFT
      [] key = "ArrowRight" -> ARROW_RIGHT
      [] key = "Up" -> ARROW_UP
      [] key = "Down" -> ARROW_DOWN
      [] key = "Left" -> ARROW_LEFT
      [] key = "Right" -> ARROW_RIGHT
      [] key = "Enter" -> ENTER
      [] key = "Return" -> ENTER
      [] key = "Escape" -> ESCAPE
      [] key = "XF86Back" -> BACK
      [] key = "Back" -> BACK
      [] key = "0" -> NUM_0
      [] key = "1" -> NUM_0 + 1
      [] key = "2" -> NUM_0 + 2
      [] key = "3" -> NUM_0 + 3
      [] key = "4" -> NUM_0 + 4
      [] key = "5" -> NUM_0 + 5
      [] key = "6" -> NUM_0 + 6
      [] key = "7" -> NUM_0 + 7
      [] key = "8" -> NUM_0 + 8
      [] key = "9" -> NUM_0 + 9
      [] OTHER -> Undefined

PREVENT_DEFAULT_KEYS ==
    {ARROW_UP, ARROW_DOWN, ARROW_LEFT, ARROW_RIGHT, ENTER, ESCAPE, BACK,
     VOLUME_UP, VOLUME_DOWN}

\* getTizenKeyCode: 'keyMap[keyName] || 0'
getTizenKeyCode(keyName) ==
    CASE keyName = "back" -> BACK
      [] keyName = "VolumeUp" -> VOLUME_UP
      [] keyName = "VolumeDown" -> VOLUME_DOWN
      [] keyName = "VolumeMute" -> 449
      [] keyName = "ChannelUp" -> 427
      [] keyName = "ChannelDown" -> 428
      [] keyName = "MediaPlay" -> 415
      [] keyName = "MediaPause" -> 19
      [] keyName = "MediaStop" -> 413
      [] keyName = "MediaRewind" -> 412
      [] keyName = "MediaFastForward" -> 417
      [] keyName = "Info" -> 457
      [] keyName = "ColorF0Red" -> 403
      [] keyName = "ColorF1Green" -> 404
      [] keyName = "ColorF2Yellow" -> 405
      [] keyName = "ColorF3Blue" -> 406
      [] OTHER -> 0

normalizeKeyCode(event) ==
    LET c1 == IF (event.keyCode = 0 \/ event.keyCode = 229)
                 /\ event.key # "" /\ KEY_NAME_MAP(event.key) # Undefined
              THEN KEY_NAME_MAP(event.key)
              ELSE event.keyCode
        isBackKey == event.key = "XF86Back" \/ event.key = "Back" \/ c1 = BACK
        c2 == IF isBackKey THEN BACK ELSE c1
        k2 == IF isBackKey THEN "Back" ELSE event.key
        c3 == CASE k2 \in {"Up", "ArrowUp"} -> ARROW_UP
                [] k2 \in {"Down", "ArrowDown"} -> ARROW_DOWN
                [] k2 \in {"Left", "ArrowLeft"} -> ARROW_LEFT
                [] k2 \in {"Right", "ArrowRight"} -> ARROW_RIGHT
                [] k2 \in {"Enter", "Return"} -> ENTER
                [] OTHER -> c2
    IN  [key |-> k2, keyCode |-> c3, originalEvent |-> NoEvent]

\* the raw keydown events, by the kind of key: directional and confirm
\* keys, the two spellings of Back (with the Tizen code; with keyCode 0 and
\* only the name), the numeric keys
NavKeyEvents ==
    {[keyCode |-> ENTER, key |-> "Enter"],
     [keyCode |-> ARROW_RIGHT, key |-> "ArrowRight"]}

BackKeyEvents ==
    {[keyCode |-> BACK, key |-> "XF86Back"],
     [keyCode |-> 0, key |-> "XF86Back"]}

NumberKeyEvents ==
    {[keyCode |-> NUM_0, key |-> "0"],
     [keyCode |-> NUM_0 + 4, key |-> "4"]}

\* other raw spellings: a directional and a confirm key that come with
\* keyCode 0 or 229 and only a name, a media key, a volume key
OtherKeyEvents ==
    {[keyCode |-> 0, key |-> "ArrowRight"],
     [keyCode |-> 229, key |-> "Enter"],
     [keyCode |-> 415, key |-> "MediaPlay"],
     [keyCode |-> VOLUME_UP, key |-> "VolumeUp"]}

TizenKeyNames == {"back", "VolumeUp"}

\* no navigation call is made
NoLnmCall == call' = NoCall /\ UNCHANGED <<lnmVars, transVars, scen>>

\* moveFocus: the element the move ends on (the spatial rule is not part of
\* this specification: any visible focusable element of the layer, or no
\* move)
MoveTargets(layerType) ==
    IF layerType = "dashboard"
    THEN IF dashboardDisplayed THEN TileSTTs ELSE {focused}
    ELSE {Widget}

handleArrowKey ==
    /\ focused' \in
         CASE fmCurrentLayer = "map" -> {focused}
           [] fmCurrentLayer = "detail" ->
                IF isLoaded THEN {focused} ELSE MoveTargets("detail")
           [] OTHER -> MoveTargets("dashboard")
    /\ NoLnmCall
    /\ UNCHANGED <<iframeVars, fmCurrentLayer, focusStates, enterTimer, hOpen,
                   dashboardDisplayed>>

\* TVRemoteInputHandler.openDetailScreen up to the wait for the content
hOpenDetailScreen(screenSTT, owner) ==
    /\ hOpen[owner] = 0
    /\ focusStates' = saveFocusState("dashboard")
    /\ SetIframe(openScreenStart(IframeState, screenSTT))
    /\ hOpen' = [hOpen EXCEPT ![owner] = screenSTT]
    /\ NoLnmCall
    /\ UNCHANGED <<fmCurrentLayer, focused, dashboardDisplayed>>

handleEnterKey(owner) ==
    IF currentLayer = CONTROL_PANEL /\ focused \in TileSTTs
    THEN IF focused = 0
         THEN /\ pushLayer(MAP, 0, owner)
              /\ UNCHANGED <<iframeVars, focusVars, hOpen>>
         ELSE IF hasScreen(focused)
         THEN hOpenDetailScreen(focused, owner)
         ELSE /\ NoLnmCall
              /\ UNCHANGED <<iframeVars, focusVars, hOpen>>
    ELSE /\ NoLnmCall
         /\ UNCHANGED <<iframeVars, focusVars, hOpen>>

handleBackKey(owner) ==
    /\ back(owner)
    /\ UNCHANGED <<iframeVars, focusVars, enterTimer, hOpen>>

\* (the zoom of the map widget is not part of this specification; the call
\* into the widget either returns or throws)
handleVolumeKey(throws) ==
    /\ NoLnmCall
    /\ UNCHANGED <<iframeVars, focusVars, enterTimer, hOpen>>

handleNumberKey(number) ==
    /\ IF currentLayer = CONTROL_PANEL /\ number \in TileSTTs
       THEN /\ focused' = IF dashboardDisplayed THEN number ELSE focused
            /\ enterTimer' = (enterTimer \/ number = 0)
       ELSE UNCHANGED <<focused, enterTimer>>
    /\ NoLnmCall
    /\ UNCHANGED <<iframeVars, fmCurrentLayer, focusStates, hOpen,
                   dashboardDisplayed>>

\* the keys under which addKeyListener registers an override handler (a
\* logical name, or a numeric code written as a string), and what a
\* registered handler does when it is called
ListenerKeys == {"Enter", "13", "Back"}

OverrideResults == {"handled", "unhandled", "throws"}

\* Map.get: "none" is JavaScript's undefined
Get(key) == IF key \in ListenerKeys THEN keyListeners[key] ELSE "none"

\* 'keyListeners.get(key) || keyListeners.get(String(keyCode))'
customHandler(normalizedKey) ==
    IF Get(normalizedKey.key) # "none"
    THEN Get(normalizedKey.key)
    ELSE Get(ToString(normalizedKey.keyCode))

\* the case of the switch of processKey that a key code selects
defaultHandler(keyCode) ==
    CASE keyCode \in {ARROW_UP, ARROW_DOWN, ARROW_LEFT, ARROW_RIGHT} ->
           "handleArrowKey"
      [] keyCode = ENTER -> "handleEnterKey"
      [] keyCode \in {ESCAPE, BACK} -> "handleBackKey"
      [] keyCode \in {VOLUME_UP, VOLUME_DOWN} -> "handleVolumeKey"
      [] keyCode \in NUM_0..(NUM_0 + 9) -> "handleNumberKey"
      [] OTHER -> "none"

\* no handler runs, or the handler that runs changes nothing
NoHandler ==
    /\ NoLnmCall
    /\ UNCHANGED <<iframeVars, focusVars, enterTimer, hOpen>>

\* faulty variant: the default handler runs whatever the override reports
stopsNever(override) == FALSE

\* 'if (handled) return', and a throw of the override, end the try block
stops(override) == override \in {"handled", "throws"}

\* faulty variant: a timer set only when the try block ends normally
finallyOnReturn(threw) == IF threw THEN "stuck" ELSE "debounce"

\* the finally block of processKey sets the timer however the try block
\* ends
finallyBlock(threw) == IF threw THEN "debounce" ELSE "debounce"

\* processKey up to its first await, or to its finally block
processKey(normalizedKey) ==
    LET override == customHandler(normalizedKey)
        handler == IF stops(override) THEN "none"
                   ELSE defaultHandler(normalizedKey.keyCode)
    IN  /\ isProcessing' = TRUE
        /\ \E throws \in IF handler = "handleVolumeKey" /\ currentLayer = MAP
                          THEN BOOLEAN ELSE {FALSE} :
             /\ CASE handler = "handleArrowKey" -> handleArrowKey
                   [] handler = "handleEnterKey" ->
                        handleEnterKey("key") /\ UNCHANGED enterTimer
                   [] handler = "handleBackKey" -> handleBackKey("key")
                   [] handler = "handleVolumeKey" -> handleVolumeKey(throws)
                   [] handler = "handleNumberKey" ->
                        handleNumberKey(normalizedKey.keyCode - NUM_0)
                   [] OTHER -> NoHandler
             /\ ev' = [normalizedKey.originalEvent EXCEPT
                         !.normalized =
                             [key |-> normalizedKey.key,
                              keyCode |-> normalizedKey.keyCode],
                         !.override = override,
                         !.handler = handler,
                         !.threw = (throws \/ override = "throws")]
        /\ keyPc' = IF tpc' = "saveFocus" THEN "awaitTransition"
                    ELSE IF hOpen'["key"] # 0 THEN "awaitOpen"
                    ELSE finallyBlock(ev'.threw)
        /\ UNCHANGED keyListeners

\* faulty variant: a guard that looks at isEnabled only
DroppedWhenDisabled == ~isEnabled

\* the guard 'if (!this.isEnabled || this.isProcessing) return'
Dropped == ~isEnabled \/ isProcessing

\* the test that opens handleKeyDown
IsBackEvent(event) == event.keyCode = BACK

Event(ch, keyCode, key, prevented, accepted) ==
    [NoEvent EXCEPT !.ch = ch, !.keyCode = keyCode, !.key = key,
                    !.prevented = prevented, !.accepted = accepted]

handleKeyDown(event) ==
    IF Dropped
    THEN /\ ev' = Event("keydown", event.keyCode, event.key,
                        IsBackEvent(event), FALSE)
         /\ NoLnmCall
         /\ UNCHANGED <<iframeVars, focusVars, handlerVars>>
    ELSE processKey([normalizeKeyCode(event) EXCEPT !.originalEvent =
                        Event("keydown", event.keyCode, event.key,
                              IsBackEvent(event)
                              \/ event.keyCode \in PREVENT_DEFAULT_KEYS,
                              TRUE)])

\* faulty variant: the hardware-key channel without the guard
handleTizenKeyUnguarded(keyName) ==
    processKey([key |-> keyName,
                keyCode |-> getTizenKeyCode(keyName),
                originalEvent |-> Event("tizenhwkey", 0, keyName, TRUE, TRUE)])

handleTizenKey(keyName) ==
    IF Dropped
    THEN /\ ev' = Event("tizenhwkey", 0, keyName, FALSE, FALSE)
         /\ NoLnmCall
         /\ UNCHANGED <<iframeVars, focusVars, handlerVars>>
    ELSE processKey([key |-> keyName,
                     keyCode |-> getTizenKeyCode(keyName),
                     originalEvent |->
                         Event("tizenhwkey", 0, keyName, TRUE, TRUE)])

\* a keydown event reaches the document listener
NavKeyDown ==
    /\ Quiet
    /\ \E event \in NavKeyEvents : handleKeyDown(event)
    /\ done' = "none"
    /\ UNCHANGED <<isEnabled, msgPc, isTizen>>
    /\ UNCHANGED itemVars
    /\ UNCHANGED copy
    /\ UNCHANGED gridVars
    /\ UNCHANGED cbVars

BackKeyDown ==
    /\ Quiet
    /\ \E event \in BackKeyEvents : handleKeyDown(event)
    /\ done' = "none"
    /\ UNCHANGED <<isEnabled, msgPc, isTizen>>
    /\ UNCHANGED itemVars
    /\ UNCHANGED copy
    /\ UNCHANGED gridVars
    /\ UNCHANGED cbVars

NumberKeyDown ==
    /\ Quiet
    /\ \E event \in NumberKeyEvents : handleKeyDown(event)
    /\ done' = "none"
    /\ UNCHANGED <<isEnabled, msgPc, isTizen>>
    /\ UNCHANGED itemVars
    /\ UNCHANGED copy
    /\ UNCHANGED gridVars
    /\ UNCHANGED cbVars

OtherKeyDown ==
    /\ Quiet
    /\ \E event \in OtherKeyEvents : handleKeyDown(event)
    /\ done' = "none"
    /\ UNCHANGED <<isEnabled, msgPc, isTizen>>
    /\ UNCHANGED itemVars
    /\ UNCHANGED copy
    /\ UNCHANGED gridVars
    /\ UNCHANGED cbVars

\* a raw keydown event in any spelling: a reliable code, 0 or 229, or
\* a code of another key, with a standard name, a vendor synonym, a name
\* that no table holds, or no name
RawKeyDown ==
    /\ Quiet
    /\ LET codes == {0, 229, ARROW_UP, ARROW_DOWN, ARROW_LEFT, ARROW_RIGHT,
                     ENTER, BACK, ESCAPE, VOLUME_UP, VOLUME_DOWN, 65}
                    \cup NUM_0..(NUM_0 + 9)
           names == {"ArrowUp", "Up", "ArrowDown", "Down", "ArrowLeft",
                     "Left", "ArrowRight", "Right", "Enter", "Return",
                     "XF86Back", "Back", "Escape", "VolumeUp", "VolumeDown",
                     "a", ""}
                    \cup {ToString(d) : d \in 0..9}
       IN  \E event \in [keyCode : codes, key : names] :
             handleKeyDown(event)
    /\ done' = "none"
    /\ UNCHANGED <<isEnabled, msgPc, isTizen>>
    /\ UNCHANGED itemVars
    /\ UNCHANGED copy
    /\ UNCHANGED gridVars
    /\ UNCHANGED cbVars

\* a tizenhwkey event with any key name
RawTizenKey ==
    /\ Quiet
    /\ isTizen
    /\ \E keyName \in {"back", "VolumeUp", "VolumeDown", "MediaPlay"} :
         handleTizenKey(keyName)
    /\ done' = "none"
    /\ UNCHANGED <<isEnabled, msgPc, isTizen>>
    /\ UNCHANGED itemVars
    /\ UNCHANGED copy
    /\ UNCHANGED gridVars
    /\ UNCHANGED cbVars

\* a tizenhwkey event reaches the listener registered on a Tizen host
TizenKey ==
    /\ Quiet
    /\ isTizen
    /\ \E keyName \in TizenKeyNames : handleTizenKey(keyName)
    /\ done' = "none"
    /\ UNCHANGED <<isEnabled, msgPc, isTizen>>
    /\ UNCHANGED itemVars
    /\ UNCHANGED copy
    /\ UNCHANGED gridVars
    /\ UNCHANGED cbVars

\* the debounce timer set in the finally block of processKey fires (a timer
\* that handleNumberKey set in the same run has the same delay and was set
\* first: it fires first)
DebounceTimer ==
    /\ Quiet
    /\ keyPc = "debounce"
    /\ ~enterTimer
    /\ isProcessing' = FALSE
    /\ keyPc' = "idle"
    /\ Silent
    /\ UNCHANGED <<lnmVars, transVars, iframeVars, focusVars, isEnabled,
                   keyListeners,
                   enterTimer, hOpen, msgPc, isTizen, scen>>
    /\ UNCHANGED itemVars
    /\ UNCHANGED copy
    /\ UNCHANGED gridVars
    /\ UNCHANGED cbVars

\* the timer set by handleNumberKey(0) fires: handleEnterKey
DeferredEnter ==
    /\ Quiet
    /\ enterTimer
    /\ handleEnterKey("timer")
    /\ enterTimer' = FALSE
    /\ ev' = NoEvent
    /\ done' = "none"
    /\ UNCHANGED <<isEnabled,
                   keyListeners, isProcessing, keyPc, msgPc, isTizen>>
    /\ UNCHANGED itemVars
    /\ UNCHANGED copy
    /\ UNCHANGED gridVars
    /\ UNCHANGED cbVars

\* the content requested by TVRemoteInputHandler.openDetailScreen fires its
\* load event: the handler writes the layer state itself
HOpenLoaded ==
    /\ Quiet
    /\ \E owner \in {"key", "timer"} :
         /\ hOpen[owner] # 0
         /\ onload(hOpen[owner])
         /\ currentLayer' = DETAIL_SCREEN
         /\ layerHistory' = IF Len(layerHistory) > 0
                               /\ Last(layerHistory) = DETAIL_SCREEN
                            THEN layerHistory
                            ELSE Append(layerHistory, DETAIL_SCREEN)
         /\ fmCurrentLayer' = "detail"
         /\ hOpen' = [hOpen EXCEPT ![owner] = 0]
         /\ keyPc' = IF owner = "key" THEN "debounce" ELSE keyPc
    /\ Silent
    /\ UNCHANGED <<transitionState, isTransitioning, transVars, focusStates,
                   focused, dashboardDisplayed, isEnabled,
                   keyListeners, isProcessing,
                   enterTimer, msgPc, isTizen, scen>>
    /\ UNCHANGED itemVars
    /\ UNCHANGED copy
    /\ UNCHANGED gridVars
    /\ UNCHANGED cbVars

\* that content fails to load (error event or watchdog): caught and logged
HOpenFailed ==
    /\ Quiet
    /\ \E owner \in {"key", "timer"} :
         /\ hOpen[owner] # 0
         /\ hOpen' = [hOpen EXCEPT ![owner] = 0]
         /\ keyPc' = IF owner = "key" THEN "debounce" ELSE keyPc
    /\ Silent
    /\ UNCHANGED <<lnmVars, transVars, iframeVars, focusVars, isEnabled,
                   keyListeners,
                   isProcessing, enterTimer, msgPc, isTizen, scen>>
    /\ UNCHANGED itemVars
    /\ UNCHANGED copy
    /\ UNCHANGED gridVars
    /\ UNCHANGED cbVars

\* a Back message of the content: the handler registered by
\* registerDefaultHandlers dispatches 'iframeBack' (handleIframeBack ->
\* handleBackKey -> back) and then calls back() itself
BackMessage ==
    /\ Quiet
    /\ iframeElement # 0
    /\ back("message")
    /\ msgPc' = "second"
    /\ ev' = NoEvent
    /\ done' = "none"
    /\ UNCHANGED <<iframeVars, focusVars, isEnabled,
                   keyListeners, isProcessing, keyPc,
                   enterTimer, hOpen, isTizen>>
    /\ UNCHANGED itemVars
    /\ UNCHANGED copy
    /\ UNCHANGED gridVars
    /\ UNCHANGED cbVars

BackMessageSecond ==
    /\ ~Running
    /\ msgPc = "second"
    /\ back("message")
    /\ msgPc' = "idle"
    /\ ev' = NoEvent
    /\ done' = "none"
    /\ UNCHANGED <<iframeVars, focusVars, isEnabled,
                   keyListeners, isProcessing, keyPc,
                   enterTimer, hOpen, isTizen>>
    /\ UNCHANGED itemVars
    /\ UNCHANGED copy
    /\ UNCHANGED gridVars
    /\ UNCHANGED cbVars

setEnabled ==
    /\ Quiet
    /\ isEnabled' = ~isEnabled
    /\ Silent
    /\ UNCHANGED <<lnmVars, transVars, iframeVars, focusVars, isProcessing,
                   keyPc, enterTimer, hOpen, msgPc, keyListeners, isTizen,
                   scen>>
    /\ UNCHANGED itemVars
    /\ UNCHANGED copy
    /\ UNCHANGED gridVars
    /\ UNCHANGED cbVars

\* a collaborator registers an override handler: a function that reports
\* handled, reports not handled or throws, or a value that is no function
addKeyListener ==
    /\ Quiet
    /\ \E key \in ListenerKeys :
       \E handler \in OverrideResults \cup {"noFunction"} :
         keyListeners' = IF handler \in OverrideResults
                         THEN [keyListeners EXCEPT ![key] = handler]
                         ELSE keyListeners
    /\ Silent
    /\ UNCHANGED <<lnmVars, transVars, iframeVars, focusVars, isEnabled,
                   isProcessing, keyPc, enterTimer, hOpen, msgPc, isTizen,
                   scen>>
    /\ UNCHANGED itemVars
    /\ UNCHANGED copy
    /\ UNCHANGED gridVars
    /\ UNCHANGED cbVars

removeKeyListener ==
    /\ Quiet
    /\ \E key \in ListenerKeys :
         keyListeners' = [keyListeners EXCEPT ![key] = "none"]
    /\ Silent
    /\ UNCHANGED <<lnmVars, transVars, iframeVars, focusVars, isEnabled,
                   isProcessing, keyPc, enterTimer, hOpen, msgPc, isTizen,
                   scen>>
    /\ UNCHANGED itemVars
    /\ UNCHANGED copy
    /\ UNCHANGED gridVars
    /\ UNCHANGED cbVars

\* ------------------------------------- FocusManager at the level of items
\* The focusable items and the other elements a selector can match, in
\* document order: the first child of the map container (no control), the
\* zoom-in button of the map (no data-stt, no id, first child of its div),
\* the tiles M0 and M4 of the dashboard, a widget of the detail layer whose
\* id is no CSS identifier.
NoStt == -1

Elements ==
    <<[layer |-> "map", focusable |-> FALSE, tabbable |-> FALSE,
       stt |-> NoStt, id |-> "", parent |-> "div", nth |-> 1, offset |-> 0],
      [layer |-> "map", focusable |-> TRUE, tabbable |-> TRUE,
       stt |-> NoStt, id |-> "", parent |-> "div", nth |-> 1, offset |-> 0],
      [layer |-> "dashboard", focusable |-> TRUE, tabbable |-> TRUE,
       stt |-> 0, id |-> "screen-tile-0", parent |-> "div", nth |-> 1,
       offset |-> 0],
      [layer |-> "dashboard", focusable |-> TRUE, tabbable |-> TRUE,
       stt |-> 4, id |-> "screen-tile-4", parent |-> "div", nth |-> 2,
       offset |-> 1],
      [layer |-> "detail", focusable |-> TRUE, tabbable |-> TRUE,
       stt |-> NoStt, id |-> "3d-view", parent |-> "div", nth |-> 1,
       offset |-> 0]>>

ElementIds == 1..Len(Elements)

\* null, or document.body as the active element
NoElement == 0

\* the elements a render of the collaborators removes, hides or puts back
Rendered == {4, 5}

\* a tile is displayed, hidden or removed; the widget is there or not
RenderStatuses(e) ==
    IF Elements[e].layer = "dashboard"
    THEN {"visible", "hidden", "removed"}
    ELSE {"visible", "removed"}

\* ids that '#' + id does not turn into a valid selector
InvalidIds == {"3d-view"}

InDocument(e) == e # NoElement /\ dom[e] # "removed"

\* 'offsetParent !== null': the element is displayed, and so is the
\* container of its layer (the one of the current layer)
Visible(e) ==
    /\ e # NoElement
    /\ dom[e] = "visible"
    /\ Elements[e].layer = fmCurrentLayer

NullSelector ==
    [kind |-> "null", stt |-> NoStt, id |-> "", parent |-> "", nth |-> 0]

\* buildElementSelector: data-stt, then id, then the position under the
\* parent (no element here carries data-index without data-stt)
buildElementSelector(e) ==
    CASE Elements[e].stt # NoStt ->
           [NullSelector EXCEPT !.kind = "stt", !.stt = Elements[e].stt]
      [] Elements[e].id # "" ->
           [NullSelector EXCEPT !.kind = "id", !.id = Elements[e].id]
      [] OTHER ->
           [NullSelector EXCEPT !.kind = "nth", !.parent = Elements[e].parent,
                                !.nth = Elements[e].nth]

\* the selector is no valid CSS: querySelector throws a SyntaxError
SelectorThrows(selector) ==
    selector.kind = "id" /\ selector.id \in InvalidIds

Matches(e, selector) ==
    CASE selector.kind = "stt" ->
           Elements[e].stt = selector.stt /\ Elements[e].stt # NoStt
      [] selector.kind = "id" -> Elements[e].id = selector.id
      [] selector.kind = "nth" ->
           Elements[e].parent = selector.parent
           /\ Elements[e].nth = selector.nth
      [] OTHER -> FALSE

\* the first element from 'from' on, in document order, that is in 'set'
RECURSIVE FirstFrom(_, _)
FirstFrom(from, set) ==
    IF from > Len(Elements) THEN NoElement
    ELSE IF from \in set THEN from
    ELSE FirstFrom(from + 1, set)

\* document.querySelector of a valid selector: the first match in the
\* document, displayed or not
querySelector(selector) ==
    FirstFrom(1, {e \in ElementIds : InDocument(e) /\ Matches(e, selector)})

\* getFocusableElements(layer), as the set and as the list
FocusableSet(layer) ==
    {e \in ElementIds : /\ Elements[e].layer = layer
                        /\ Elements[e].focusable
                        /\ Visible(e)}

RECURSIVE ListFrom(_, _)
ListFrom(from, set) ==
    IF from > Len(Elements) THEN <<>>
    ELSE IF from \in set THEN <<from>> \o ListFrom(from + 1, set)
    ELSE ListFrom(from + 1, set)

getFocusableElements(layer) == ListFrom(1, FocusableSet(layer))

\* Array.indexOf: 0-based, -1 when absent
RECURSIVE indexOf(_, _, _)
indexOf(list, e, i) ==
    IF i > Len(list) THEN -1
    ELSE IF list[i] = e THEN i - 1
    ELSE indexOf(list, e, i + 1)

\* list[index] of a JavaScript array: undefined outside its bounds
At(list, index) ==
    IF index >= 0 /\ index < Len(list) THEN list[index + 1] ELSE NoElement

getFirstFocusable(layer) == At(getFocusableElements(layer), 0)

\* 'this.currentFocusedElement || document.activeElement'
getFocusedElement ==
    IF currentFocusedElement # NoElement THEN currentFocusedElement
    ELSE activeElement

NullState ==
    [saved |-> FALSE, elementSelector |-> NullSelector, elementIndex |-> -1,
     scrollPosition |-> 0, screenSTT |-> NoStt, el |-> NoElement]

\* the FocusState that saveFocusState(layer) stores for the focused element
\* ('el' is the element itself, kept to state the properties)
FocusStateOf(e, layer) ==
    [saved |-> TRUE,
     elementSelector |-> buildElementSelector(e),
     elementIndex |-> indexOf(getFocusableElements(layer), e, 1),
     scrollPosition |-> IF layer = "dashboard" THEN scrollTop ELSE 0,
     screenSTT |-> IF layer = "dashboard" THEN Elements[e].stt ELSE NoStt,
     el |-> e]

\* setFocus(element): element.focus() moves the focus when the element can
\* take it, the reference is tracked in any case, scrollIntoView scrolls
\* the dashboard to a displayed tile
setFocus(e) ==
    /\ currentFocusedElement' = e
    /\ activeElement' = IF Visible(e) /\ Elements[e].tabbable THEN e
                        ELSE activeElement

scrollIntoView(e) ==
    IF Visible(e) /\ Elements[e].layer = "dashboard"
    THEN Elements[e].offset
    ELSE scrollTop

NoFmCall == [op |-> "none", threw |-> FALSE, returned |-> "none"]

FmCall(op, threw, returned) ==
    [op |-> op, threw |-> threw, returned |-> returned]

\* what the item-level operations leave alone
ItemFrame ==
    /\ Silent
    /\ UNCHANGED <<lnmVars, transVars, iframeVars, focusStates, focused,
                   dashboardDisplayed, handlerVars, isTizen, scen, cbVars,
                   gridVars>>

\* focusFirstElement(layer)
focusFirst(layer) ==
    LET firstElement == getFirstFocusable(layer)
    IN  IF firstElement # NoElement
        THEN /\ setFocus(firstElement)
             /\ scrollTop' = scrollIntoView(firstElement)
             /\ fm' = FmCall("first", FALSE, "true")
        ELSE /\ UNCHANGED <<currentFocusedElement, activeElement, scrollTop>>
             /\ fm' = FmCall("first", FALSE, "false")

\* the element restoreFocusState(layer) finds for a saved state: by the
\* saved selector, else by the saved index, else the first focusable one
restoreTarget(layer) ==
    LET state == focusStateMap[layer]
        bySelector == querySelector(state.elementSelector)
        byIndex == At(getFocusableElements(layer), state.elementIndex)
    IN  IF bySelector # NoElement THEN bySelector
        ELSE IF byIndex # NoElement THEN byIndex
        ELSE getFirstFocusable(layer)

\* restoreFocusState(layer)
restore(layer) ==
    LET state == focusStateMap[layer]
        element == restoreTarget(layer)
    IN  IF ~state.saved THEN focusFirst(layer)
        ELSE IF SelectorThrows(state.elementSelector)
        THEN /\ UNCHANGED <<currentFocusedElement, activeElement, scrollTop>>
             /\ fm' = FmCall("restore", TRUE, "none")
        ELSE IF element # NoElement
        THEN /\ setFocus(element)
             /\ scrollTop' = IF layer = "dashboard"
                             THEN state.scrollPosition
                             ELSE scrollIntoView(element)
             /\ fm' = FmCall("restore", FALSE, "true")
        ELSE /\ UNCHANGED <<currentFocusedElement, activeElement, scrollTop>>
             /\ fm' = FmCall("restore", FALSE, "false")

\* the object that getFocusState returns: its own values, and which of its
\* parts are the very objects of the stored FocusState (the object itself,
\* its metadata, its scrollPosition)
NoCopy ==
    [layer |-> "none", elementIndex |-> -1, screenSTT |-> NoStt,
     scrollPosition |-> 0, top |-> FALSE, meta |-> FALSE, scroll |-> FALSE]

\* faulty variant: the stored object itself is returned
getFocusStateShared(layer) ==
    LET state == focusStateMap[layer]
    IN  IF ~state.saved THEN NoCopy
        ELSE [layer |-> layer, elementIndex |-> state.elementIndex,
              screenSTT |-> state.screenSTT,
              scrollPosition |-> state.scrollPosition,
              top |-> TRUE, meta |-> TRUE, scroll |-> TRUE]

\* getFocusState(layer): '{ ...state, metadata: { ...state.metadata } }',
\* or null; the spread copies the reference to scrollPosition
getFocusState(layer) ==
    LET state == focusStateMap[layer]
    IN  IF ~state.saved THEN NoCopy
        ELSE [layer |-> layer, elementIndex |-> state.elementIndex,
              screenSTT |-> state.screenSTT,
              scrollPosition |-> state.scrollPosition,
              top |-> FALSE, meta |-> FALSE, scroll |-> TRUE]

\* Step 1 of performTransition, or the save of the handler's
\* openDetailScreen: saveFocusState of the layer that is left
SaveFocusState ==
    /\ fstep = "idle"
    /\ focusStateMap' =
         IF getFocusedElement = NoElement THEN focusStateMap
         ELSE [focusStateMap EXCEPT ![fmCurrentLayer] =
                   FocusStateOf(getFocusedElement, fmCurrentLayer)]
    /\ fstep' = "left"
    /\ fm' = FmCall("save", FALSE, "none")
    /\ UNCHANGED <<dom, currentFocusedElement, activeElement, scrollTop,
                   fmCurrentLayer>>
    \* the stored object is a new one: an object returned before no longer
    \* shares a part with it
    /\ copy' = IF copy.layer = fmCurrentLayer /\ getFocusedElement # NoElement
               THEN [copy EXCEPT !.top = FALSE, !.meta = FALSE,
                                 !.scroll = FALSE]
               ELSE copy
    /\ ItemFrame

\* Steps 2 to 6 of performTransition as the FocusManager sees them: the
\* container of the layer that is left is no longer displayed (its element
\* loses the focus to the body), the container of the target layer is, and
\* the target layer is current
EnterLayer ==
    /\ fstep = "left"
    /\ \E fromLayer \in Layers, toLayer \in Layers :
         /\ LAYER_TO_TYPE(fromLayer) = fmCurrentLayer
         /\ canTransition(fromLayer, toLayer)
         /\ fmCurrentLayer' = LAYER_TO_TYPE(toLayer)
    /\ \E isBack \in BOOLEAN :
         fstep' = IF isBack THEN "back" ELSE "forward"
    /\ activeElement' = NoElement
    /\ fm' = NoFmCall
    /\ UNCHANGED <<dom, currentFocusedElement, focusStateMap, scrollTop>>
    \* an object returned by getFocusState is followed until the layer changes
    /\ copy' = NoCopy
    /\ ItemFrame

\* Step 7 of performTransition: restoreFocusState on a back-navigation,
\* focusFirstElement otherwise
RestoringFocus ==
    /\ fstep \in {"back", "forward"}
    /\ IF fstep = "back"
       THEN restore(fmCurrentLayer)
       ELSE focusFirst(fmCurrentLayer)
    /\ fstep' = "idle"
    /\ UNCHANGED <<dom, focusStateMap, fmCurrentLayer>>
    /\ UNCHANGED copy
    /\ ItemFrame

\* moveFocus or a quick navigation: setFocus on a focusable element of the
\* current layer
SetFocus ==
    /\ \E e \in FocusableSet(fmCurrentLayer) :
         /\ setFocus(e)
         /\ scrollTop' = scrollIntoView(e)
    /\ fm' = NoFmCall
    /\ UNCHANGED <<dom, focusStateMap, fstep, fmCurrentLayer>>
    /\ UNCHANGED copy
    /\ ItemFrame

\* the user scrolls the dashboard
Scroll ==
    /\ fmCurrentLayer = "dashboard"
    /\ scrollTop' = 1 - scrollTop
    /\ fm' = NoFmCall
    /\ UNCHANGED <<dom, currentFocusedElement, activeElement, focusStateMap,
                   fstep, fmCurrentLayer>>
    /\ UNCHANGED copy
    /\ ItemFrame

\* a collaborator renders: an item is removed from the document, hidden, or
\* put back; an element that is no longer displayed loses the focus
Render ==
    /\ \E e \in Rendered :
         \E status \in RenderStatuses(e) \ {dom[e]} :
           /\ dom' = [dom EXCEPT ![e] = status]
           /\ activeElement' = IF activeElement = e /\ status # "visible"
                               THEN NoElement
                               ELSE activeElement
    /\ fm' = NoFmCall
    /\ UNCHANGED <<currentFocusedElement, focusStateMap, scrollTop, fstep,
                   fmCurrentLayer>>
    /\ UNCHANGED copy
    /\ ItemFrame

\* the queries of the FocusManager, called by a collaborator
QueryFrame ==
    /\ UNCHANGED <<dom, currentFocusedElement, activeElement, focusStateMap,
                   scrollTop, fstep, fmCurrentLayer>>
    /\ ItemFrame

GetFocusedElement ==
    /\ fm' = FmCall("getFocusedElement", FALSE, ToString(getFocusedElement))
    /\ UNCHANGED copy
    /\ QueryFrame

\* hasFocus(layer)
hasFocus(layer) == focusStateMap[layer].saved

HasFocus ==
    /\ \E layer \in LayerTypes :
         fm' = FmCall("hasFocus", FALSE, ToString(hasFocus(layer)))
    /\ UNCHANGED copy
    /\ QueryFrame

GetFocusState ==
    /\ \E layer \in LayerTypes :
         /\ copy' = getFocusState(layer)
         /\ fm' = FmCall("getFocusState", FALSE,
                         IF copy'.layer = "none" THEN "null" ELSE "object")
    /\ QueryFrame

GetCurrentLayer ==
    /\ fm' = FmCall("getCurrentLayer", FALSE, fmCurrentLayer)
    /\ UNCHANGED copy
    /\ QueryFrame

\* the caller changes the object it got from getFocusState: it assigns a
\* field of the object, a field of its metadata, or a coordinate of its
\* scrollPosition; a part that is shared with the stored FocusState
\* changes there
ChangeCopy ==
    /\ copy.layer # "none"
    /\ \E part \in {"field", "metadata", "scroll"} :
         /\ fm' = FmCall("change", FALSE, part)
         /\ CASE part = "field" ->
                  IF copy.top
                  THEN /\ focusStateMap' =
                            [focusStateMap EXCEPT
                               ![copy.layer].elementIndex = -1]
                       /\ UNCHANGED copy
                  ELSE /\ copy' = [copy EXCEPT !.elementIndex = -1]
                       /\ UNCHANGED focusStateMap
              [] part = "metadata" ->
                  IF copy.meta
                  THEN /\ focusStateMap' =
                            [focusStateMap EXCEPT
                               ![copy.layer].screenSTT = NoStt]
                       /\ UNCHANGED copy
                  ELSE /\ copy' = [copy EXCEPT !.screenSTT = NoStt]
                       /\ UNCHANGED focusStateMap
              [] part = "scroll" ->
                  IF copy.scroll
                  THEN /\ focusStateMap' =
                            [focusStateMap EXCEPT
                               ![copy.layer].scrollPosition = 1 - @]
                       /\ copy' = [copy EXCEPT !.scrollPosition = 1 - @]
                  ELSE /\ copy' = [copy EXCEPT !.scrollPosition = 1 - @]
                       /\ UNCHANGED focusStateMap
    /\ UNCHANGED <<dom, currentFocusedElement, activeElement, scrollTop,
                   fstep, fmCurrentLayer>>
    /\ ItemFrame

\* faulty variant: the focused element is never taken to be valid
isFocusedElementValidNever(focusedElement) == FALSE

\* refreshFocusableElements: 'focusedElement && focusedElement !==
\* document.body && document.body.contains(focusedElement) &&
\* focusedElement.offsetParent !== null'
isFocusedElementValid(focusedElement) ==
    focusedElement # NoElement /\ InDocument(focusedElement)
    /\ Visible(focusedElement)

\* querySelector inside 'try { } catch (e) { }': no match on a throw
querySelectorOrSkip(selector) ==
    IF SelectorThrows(selector) THEN NoElement ELSE querySelector(selector)

\* the element the strategies of refreshFocusableElements end on when the
\* focused element is not valid (NoElement: none)
refreshTarget(targetLayer, focusedElement) ==
    LET known == focusedElement # NoElement
        focusables == getFocusableElements(targetLayer)
        sttSelector(stt) == [NullSelector EXCEPT !.kind = "stt", !.stt = stt]
        byStt == IF known /\ Elements[focusedElement].stt # NoStt
                 THEN querySelector(sttSelector(Elements[focusedElement].stt))
                 ELSE NoElement
        byId == IF known /\ Elements[focusedElement].id # ""
                THEN querySelector([NullSelector EXCEPT
                         !.kind = "id", !.id = Elements[focusedElement].id])
                ELSE NoElement
        bySelector == IF known
                      THEN querySelectorOrSkip(
                               buildElementSelector(focusedElement))
                      ELSE NoElement
        index == IF known
                 THEN indexOf(getFocusableElements(fmCurrentLayer),
                              focusedElement, 1)
                 ELSE -1
        byIndex == IF index >= 0 /\ Len(focusables) > 0
                   THEN At(focusables,
                           IF index < Len(focusables) - 1
                           THEN index ELSE Len(focusables) - 1)
                   ELSE NoElement
        savedState == focusStateMap[targetLayer]
        bySaved == IF savedState.saved
                   THEN querySelectorOrSkip(savedState.elementSelector)
                   ELSE NoElement
        byMetadata == IF savedState.saved /\ savedState.screenSTT # NoStt
                      THEN querySelector(sttSelector(savedState.screenSTT))
                      ELSE NoElement
    IN  CASE byStt # NoElement -> byStt
          [] byId # NoElement -> byId
          [] bySelector # NoElement -> bySelector
          [] byIndex # NoElement -> byIndex
          [] bySaved # NoElement -> bySaved
          [] byMetadata # NoElement -> byMetadata
          [] OTHER -> At(focusables, 0)

\* a collaborator calls refreshFocusableElements(layer) after it has
\* rendered
RefreshFocusableElements ==
    /\ \E layer \in LayerTypes :
         LET focusedElement == getFocusedElement
             element == refreshTarget(layer, focusedElement)
         IN  IF isFocusedElementValid(focusedElement)
             THEN /\ UNCHANGED <<currentFocusedElement, activeElement,
                                 scrollTop>>
                  /\ fm' = FmCall("refresh", FALSE, "kept")
             ELSE IF element # NoElement
             THEN /\ setFocus(element)
                  /\ scrollTop' = scrollIntoView(element)
                  /\ fm' = FmCall("refresh", FALSE, "true")
             ELSE /\ currentFocusedElement' = NoElement
                  /\ UNCHANGED <<activeElement, scrollTop>>
                  /\ fm' = FmCall("refresh", FALSE, "false")
    /\ UNCHANGED <<dom, focusStateMap, fstep, fmCurrentLayer>>
    /\ UNCHANGED copy
    /\ ItemFrame

\* ------------------------------------------------ the grid of the dashboard
\* The tiles of the dashboard are rendered in the order of 'screens' (M0
\* first, then by STT); every tile is displayed and is a focusable item.
\* the value of a 'data-nav-' attribute of a tile without a neighbour
NoNeighbor == -1

\* DashboardGrid.calculateLayout: the columns and rows for a number of tiles
calculateLayout(screenCount) ==
    CASE screenCount = 1 -> [columns |-> 1, rows |-> 1]
      [] screenCount = 2 -> [columns |-> 2, rows |-> 1]
      [] screenCount = 3 -> [columns |-> 3, rows |-> 1]
      [] screenCount = 4 -> [columns |-> 2, rows |-> 2]
      [] screenCount \in {5, 6} -> [columns |-> 3, rows |-> 2]
      [] screenCount \in {7, 8} -> [columns |-> 4, rows |-> 2]
      [] screenCount = 9 -> [columns |-> 3, rows |-> 3]
      [] screenCount \in {10, 11, 12} -> [columns |-> 4, rows |-> 3]
      [] OTHER -> [columns |-> 4, rows |-> (screenCount + 3) \div 4]

\* the STT of the screen at an index of 'screens' (M0, M4, M5, ...)
screenSTT(index) == IF index = 0 THEN 0 ELSE index + 3

\* getNeighborStt of setNavigationAttributes
getNeighborStt(length, neighborIndex) ==
    IF neighborIndex < 0 \/ neighborIndex >= length THEN NoNeighbor
    ELSE screenSTT(neighborIndex)

\* setNavigationAttributes(element, index): the 'data-nav-' attributes of
\* the tile at the index, in a grid of 'length' tiles
setNavigationAttributes(length, index) ==
    LET columns == calculateLayout(length).columns
        rows == calculateLayout(length).rows
        row == index \div columns
        col == index % columns
    IN  [up |-> IF row > 0 THEN index - columns ELSE NoNeighbor,
         down |-> IF row < rows - 1
                  THEN IF index + columns < length
                       THEN index + columns
                       ELSE length - 1
                  ELSE NoNeighbor,
         left |-> IF col > 0 THEN index - 1 ELSE NoNeighbor,
         right |-> IF col < columns - 1 /\ index + 1 < length
                   THEN index + 1
                   ELSE NoNeighbor]

\* element.getAttribute('data-nav-' + direction)
navAttr(length, index, direction) ==
    setNavigationAttributes(length, index)[direction]

\* the index, in the list of focusable tiles, of the tile with this STT
\* (-1 when there is none)
tileIndexOf(length, stt) ==
    IF \E i \in 0..(length - 1) : screenSTT(i) = stt
    THEN CHOOSE i \in 0..(length - 1) : screenSTT(i) = stt
    ELSE -1

\* faulty variant: the linear navigation without Math.max and Math.min
linearTargetUnclamped(currentIndex, totalElements, direction) ==
    IF direction \in {"up", "left"} THEN currentIndex - 1
    ELSE currentIndex + 1

\* calculateTargetIndex, 'Default linear navigation'
linearTarget(currentIndex, totalElements, direction) ==
    IF direction \in {"up", "left"}
    THEN IF currentIndex - 1 > 0 THEN currentIndex - 1 ELSE 0
    ELSE IF currentIndex + 1 < totalElements - 1
         THEN currentIndex + 1
         ELSE totalElements - 1

\* calculateTargetIndex(currentIndex, totalElements, direction, layer);
\* 'activeTile' is the index of the tile that is document.activeElement
\* (-1: the active element is no tile)
calculateTargetIndex(currentIndex, totalElements, direction, layer, tile) ==
    LET activeTile == tile
        onTile == layer = "dashboard" /\ activeTile # -1
        targetIndex == IF onTile
                       THEN navAttr(screensLength, activeTile, direction)
                       ELSE NoNeighbor
        targetStt == IF onTile
                     THEN getNeighborStt(screensLength, targetIndex)
                     ELSE NoNeighbor
    IN  IF onTile /\ targetIndex # NoNeighbor THEN targetIndex
        ELSE IF onTile /\ targetStt # NoNeighbor
                /\ tileIndexOf(screensLength, targetStt) # -1
        THEN tileIndexOf(screensLength, targetStt)
        ELSE linearTarget(currentIndex, totalElements, direction)

NoMove ==
    [op |-> "none", direction |-> "", from |-> -1, target |-> NoNeighbor,
     returned |-> FALSE]

\* what the operations of the grid leave alone
GridFrame ==
    /\ Silent
    /\ UNCHANGED <<lnmVars, transVars, iframeVars, focusVars, handlerVars,
                   isTizen, scen, itemVars, cbVars, copy>>

\* DashboardGrid.render(activeScreens), with the same screens or others:
\* renderGrid replaces the tiles, restoreFocus gives the focus back to the
\* tile of the screen that had it (or else to M0), and a timer is set for
\* autoFocusFirstScreen; with no screen, renderGrid returns before both
GridRender ==
    /\ autoFocusTimers < MaxTimers
    /\ \E length \in 0..MaxScreens :
         /\ screensLength' = length
         /\ focusedIndex' = IF length = 0 \/ focusedIndex = -1 THEN -1
                            ELSE IF focusedIndex < length THEN focusedIndex
                            ELSE 0
         /\ autoFocusTimers' = IF length = 0 THEN autoFocusTimers
                               ELSE autoFocusTimers + 1
         /\ nav' = [op |-> "render", direction |-> "", from |-> focusedIndex,
                    target |-> focusedIndex', returned |-> length > 0]
    /\ GridFrame

\* the timer of renderGrid fires, 50 ms after the render:
\* autoFocusFirstScreen focuses M0, or else the first tile
autoFocusFirstScreen ==
    /\ autoFocusTimers > 0
    /\ autoFocusTimers' = autoFocusTimers - 1
    /\ focusedIndex' = IF screensLength > 0 THEN 0 ELSE focusedIndex
    /\ nav' = NoMove
    /\ UNCHANGED screensLength
    /\ GridFrame

\* a tile takes the focus by a click or by the quick navigation of a
\* numeric key
FocusTile ==
    /\ \E index \in 0..(screensLength - 1) : focusedIndex' = index
    /\ nav' = NoMove
    /\ UNCHANGED <<screensLength, autoFocusTimers>>
    /\ GridFrame

\* FocusManager.moveFocus(direction) on the dashboard: 'target' is the
\* index of the tile that setFocus is called with (NoNeighbor: no call)
moveFocus(direction) ==
    LET totalElements == screensLength
        currentIndex == focusedIndex
        targetIndex == calculateTargetIndex(currentIndex, totalElements,
                                            direction, "dashboard",
                                            focusedIndex)
    IN  IF currentIndex = -1
        THEN /\ focusedIndex' = IF totalElements > 0 THEN 0 ELSE focusedIndex
             /\ nav' = [op |-> "moveFocus", direction |-> direction,
                        from |-> currentIndex,
                        target |-> IF totalElements > 0 THEN 0
                                   ELSE NoNeighbor,
                        returned |-> totalElements > 0]
        ELSE IF targetIndex # -1 /\ targetIndex # currentIndex
        THEN /\ focusedIndex' = IF targetIndex \in 0..(totalElements - 1)
                                THEN targetIndex
                                ELSE focusedIndex
             /\ nav' = [op |-> "moveFocus", direction |-> direction,
                        from |-> currentIndex, target |-> targetIndex,
                        returned |-> TRUE]
        ELSE /\ focusedIndex' = focusedIndex
             /\ nav' = [op |-> "moveFocus", direction |-> direction,
                        from |-> currentIndex, target |-> NoNeighbor,
                        returned |-> FALSE]

\* a directional key on the dashboard: handleDashboardNavigation
MoveFocus ==
    /\ \E direction \in {"up", "down", "left", "right"} :
         moveFocus(direction)
    /\ UNCHANGED <<screensLength, autoFocusTimers>>
    /\ GridFrame

\* ------------------------------------ IframeScreenManager, called directly
\* the screens asked for: 2 has no entry in SCREEN_MAPPING
FrameSTTs == {2, 4, 5, 6}

FramesFrame ==
    /\ ev' = NoEvent
    /\ done' = "none"
    /\ UNCHANGED <<lnmVars, transVars, focusVars, handlerVars, isTizen, scen,
                   itemVars, cbVars, gridVars, copy>>

\* openScreen(screenSTT), up to the promise it returns; the screen is
\* closed first only when isLoaded is set
OpenScreen ==
    /\ \E stt \in FrameSTTs :
         IF hasScreen(stt)
         THEN /\ SetIframe(openScreenStart(IframeState, stt))
              /\ call' = Call("openScreen", stt, "pending", 0)
         ELSE /\ UNCHANGED iframeVars
              /\ call' = Call("openScreen", stt, "false", 0)
    /\ FramesFrame

CloseScreen ==
    /\ SetIframe(closeScreen(IframeState))
    /\ call' = Call("closeScreen", 0, "undefined", 0)
    /\ FramesFrame

\* reloadScreen(): closeScreen, then openScreen of the screen that was loaded
ReloadScreen ==
    /\ IF currentScreenSTT = 0
       THEN /\ UNCHANGED iframeVars
            /\ call' = Call("reloadScreen", 0, "false", 0)
       ELSE /\ SetIframe(openScreenStart(closeScreen(IframeState),
                                         currentScreenSTT))
            /\ call' = Call("reloadScreen", currentScreenSTT, "pending", 0)
    /\ FramesFrame

\* a frame of the container fires its load event, before or after the
\* watchdog of its openScreen (the watchdog only rejects the promise); a
\* frame that was removed from the document fires none
FrameLoaded ==
    /\ \E stt \in loads : onload(stt)
    /\ call' = NoCall
    /\ FramesFrame

\* ---------------------------------------------------------- specification
\* the state after init() of the four objects, on either kind of host
Init ==
    /\ currentLayer = MAP
    /\ layerHistory = <<MAP>>
    /\ transitionState = TransitionState.IDLE
    /\ isTransitioning = FALSE
    /\ tpc = "idle"
    /\ tr = NoTransition
    /\ tcaller = "none"
    /\ iframeElement = 0
    /\ isLoaded = FALSE
    /\ currentScreenSTT = 0
    /\ frames = {}
    /\ loads = {}
    /\ fmCurrentLayer = "map"
    /\ focusStates = [t \in LayerTypes |-> NoState]
    /\ focused = NoFocus
    /\ dashboardDisplayed = FALSE
    /\ isEnabled = TRUE
    /\ keyListeners = [k \in ListenerKeys |-> "none"]
    /\ isProcessing = FALSE
    /\ keyPc = "idle"
    /\ enterTimer = FALSE
    /\ hOpen = [o \in {"key", "timer"} |-> 0]
    /\ msgPc = "idle"
    /\ isTizen \in BOOLEAN
    /\ call = NoCall
    /\ ev = NoEvent
    /\ done = "none"
    /\ tlog = <<>>
    /\ notified = FALSE
    /\ scen = NoScen
    /\ dom = [e \in ElementIds |-> "visible"]
    /\ currentFocusedElement = NoElement
    /\ activeElement = NoElement
    /\ focusStateMap = [t \in LayerTypes |-> NullState]
    /\ scrollTop = 0
    /\ fstep = "idle"
    /\ fm = NoFmCall
    /\ layerChangeCallbacks = <<>>
    /\ notifications = <<>>
    /\ screensLength = Len(Tiles)
    /\ focusedIndex = -1
    /\ autoFocusTimers = 0
    /\ nav = NoMove
    /\ copy = NoCopy

\* Navigation: the public operations called at any time, the transitions,
\* the content's Back message, and the keys that reach the handler's own
\* openDetailScreen (a move of the focus, a confirm).
NextNav ==
    \/ CallOpenDetailScreen \/ CallShowDashboard
    \/ CallPushLayer \/ CallPopLayer
    \/ StepSaveFocus \/ StepHide \/ HideDone \/ StepIframe \/ OpenLoaded
    \/ OpenFailed \/ StepShow \/ ShowDone \/ StepHistory \/ StepLayer
    \/ StepRestoreFocus \/ StepNotify \/ StepFinally
    \/ NavKeyDown \/ DebounceTimer
    \/ HOpenLoaded \/ HOpenFailed \/ BackMessage \/ BackMessageSecond

\* (the host matters to the exit request and to the hardware-key channel,
\* which belong to the input specification: here the host is a Tizen one)
InitNav == Init /\ isTizen = TRUE

SpecNav == InitNav /\ [][NextNav]_vars

\* Input: the directional, confirm and Back keys on both channels, on
\* either kind of host, the debounce timer, setEnabled, and the navigation
\* these keys start (the dashboard is entered by showDashboard; no key
\* loads content inside a transition).
NextInput ==
    \/ CallShowDashboard
    \/ StepSaveFocus \/ StepHide \/ HideDone \/ StepIframe
    \/ StepShow \/ ShowDone \/ StepHistory \/ StepLayer
    \/ StepRestoreFocus \/ StepNotify \/ StepFinally
    \/ NavKeyDown \/ BackKeyDown \/ TizenKey
    \/ DebounceTimer
    \/ HOpenLoaded \/ HOpenFailed
    \/ setEnabled

SpecInput == Init /\ [][NextInput]_vars

\* Numeric keys: the quick navigation of the dashboard and its deferred
\* confirm, with the keys that move the focus and confirm.
NextNumber ==
    \/ CallShowDashboard
    \/ StepSaveFocus \/ StepHide \/ HideDone \/ StepIframe
    \/ StepShow \/ ShowDone \/ StepHistory \/ StepLayer
    \/ StepRestoreFocus \/ StepNotify \/ StepFinally
    \/ NavKeyDown \/ NumberKeyDown
    \/ DebounceTimer \/ DeferredEnter
    \/ HOpenLoaded \/ HOpenFailed

SpecNumber == InitNav /\ [][NextNumber]_vars

\* Dispatch: the key events of both channels in every raw spelling, the
\* registry of override handlers, the debounce timer and setEnabled, on the
\* map layer (where no key starts a transition).
NextKeys ==
    \/ addKeyListener \/ removeKeyListener
    \/ NavKeyDown \/ BackKeyDown \/ NumberKeyDown \/ OtherKeyDown \/ TizenKey
    \/ DebounceTimer
    \/ setEnabled

SpecKeys == Init /\ [][NextKeys]_vars

\* a timer that was set fires
SpecKeysFair == SpecKeys /\ WF_vars(DebounceTimer)

\* Focus: the operations of the FocusManager on the items of the three
\* layers, as the transitions and the collaborators call them, while the
\* items are rendered, removed and hidden.
NextFocus ==
    \/ SaveFocusState \/ EnterLayer \/ RestoringFocus
    \/ SetFocus \/ Scroll \/ Render
    \/ RefreshFocusableElements

SpecFocus == InitNav /\ [][NextFocus]_vars

\* Observers: the navigation operations called at any time and the
\* transitions they start, while collaborators register and unregister
\* layer-change callbacks.
NextObservers ==
    \/ onLayerChange \/ offLayerChange
    \/ CallOpenDetailScreen \/ CallShowDashboard
    \/ CallPushLayer \/ CallPopLayer
    \/ StepSaveFocus \/ StepHide \/ HideDone \/ StepIframe \/ OpenLoaded
    \/ OpenFailed \/ StepShow \/ ShowDone \/ StepHistory \/ StepLayer
    \/ StepRestoreFocus \/ StepNotify \/ StepFinally

SpecObservers == InitNav /\ [][NextObservers]_vars

\* Transitions: the navigation operations called at any time and the
\* transitions they start; a step that can run does run, a timer that was
\* set fires, and a content frame loads, fails or runs into the watchdog.
NextTransitions ==
    \/ CallOpenDetailScreen \/ CallShowDashboard
    \/ CallPushLayer \/ CallPopLayer
    \/ StepSaveFocus \/ StepHide \/ HideDone \/ StepIframe \/ OpenLoaded
    \/ OpenFailed \/ StepShow \/ ShowDone \/ StepHistory \/ StepLayer
    \/ StepRestoreFocus \/ StepNotify \/ StepFinally

SpecTransitionsFair ==
    /\ InitNav
    /\ [][NextTransitions]_vars
    /\ WF_vars(StepSaveFocus \/ StepHide \/ HideDone \/ StepIframe
               \/ OpenLoaded \/ OpenFailed \/ StepShow \/ ShowDone
               \/ StepHistory \/ StepLayer \/ StepRestoreFocus
               \/ StepNotify \/ StepFinally)

\* Grid: the dashboard is rendered with any number of tiles, a tile takes
\* the focus, the directional keys move it.
NextGrid ==
    \/ GridRender \/ autoFocusFirstScreen \/ FocusTile \/ MoveFocus

SpecGrid == InitNav /\ [][NextGrid]_vars

\* Frames: the IframeScreenManager is driven directly, and the frames of
\* the container fire their load events at any time.
NextFrames ==
    \/ OpenScreen \/ CloseScreen \/ ReloadScreen \/ FrameLoaded

SpecFrames == InitNav /\ [][NextFrames]_vars

\* Spellings: the key events of both channels in every raw spelling, on
\* the map layer of a Tizen host, and the debounce timer.
NextSpellings ==
    \/ RawKeyDown \/ RawTizenKey \/ DebounceTimer

SpecSpellings == InitNav /\ [][NextSpellings]_vars

\* Queries: the queries of the FocusManager and what their caller does
\* with the object it gets, between the operations that move, save and
\* restore the focus.
NextQueries ==
    \/ SaveFocusState \/ EnterLayer \/ RestoringFocus
    \/ SetFocus
    \/ GetFocusedElement \/ HasFocus \/ GetFocusState \/ GetCurrentLayer
    \/ ChangeCopy

SpecQueries == InitNav /\ [][NextQueries]_vars

\* ------------------------------------------------------------- properties
\* C1: while a transition is in progress, every pushLayer or popLayer call
\* returns false at once and changes neither TransitionState, the current
\* layer nor LayerHistory; the running transition keeps its arguments and
\* its position, so no second transition starts inside it.
GuardedWhileTransitioning ==
    [][(isTransitioning /\ call'.op \in {"pushLayer", "popLayer"})
         => /\ call'.ret = "false"
            /\ UNCHANGED <<transitionState, currentLayer, layerHistory,
                           isTransitioning, tpc, tr, tlog>>]_vars

\* a pushLayer call was refused while the Hiding step was pending
RefusedWhileHiding ==
    /\ call.op = "pushLayer"
    /\ call.ret = "false"
    /\ tpc = "awaitHide"
    /\ transitionState = TransitionState.HIDING
    /\ isTransitioning

\* C2: pushLayer(target) returns false and changes nothing (layer, history,
\* TransitionState, isTransitioning, saved focus states, content frame, no
\* step of a transition, no notification) when target is the current layer
\* or the move is Map -> Detail or Detail -> Map.
PushRejectedIsNoOp ==
    [][(/\ call'.op = "pushLayer"
        /\ \/ call'.layer = currentLayer
           \/ <<currentLayer, call'.layer>>
                \in {<<MAP, DETAIL_SCREEN>>, <<DETAIL_SCREEN, MAP>>})
         => /\ call'.ret = "false"
            /\ UNCHANGED <<lnmVars, transVars, iframeVars, focusVars>>]_vars

\* pushLayer(Detail) was refused on the Map layer with no transition running
PushDetailRefusedOnMap ==
    /\ call.op = "pushLayer"
    /\ call.layer = DETAIL_SCREEN
    /\ call.ret = "false"
    /\ currentLayer = MAP
    /\ ~isTransitioning

\* C3: at every suspension point and when idle, LayerHistory is not empty
\* and its last element is the current layer.
HistoryEndsWithCurrent ==
    ~Running => /\ Len(layerHistory) > 0
                /\ Last(layerHistory) = currentLayer

\* C4: every change of the current layer goes between adjacent layers,
\* never from Map to Detail or from Detail to Map.
LayerChangesAreAdjacent ==
    [][currentLayer' # currentLayer
         => <<currentLayer, currentLayer'>>
              \notin {<<MAP, DETAIL_SCREEN>>, <<DETAIL_SCREEN, MAP>>}]_vars

\* C5: a transition that completes has gone through SavingFocus, Hiding,
\* Showing, RestoringFocus, Complete in that order and then returns to
\* Idle; the focus was saved before the hide, history and then the layer
\* were updated after the show had completed, and the observers were
\* notified after the focus step.  (The steps of the content frame, which
\* lie between the hide and the show, are left out of the comparison.)
StepsInOrder ==
    /\ (tpc = "finally" /\ tr.ok)
         => /\ SelectSeq(tlog, LAMBDA t : t \notin {"close", "open",
                                                    "open-unknown", "loaded"}) =
                 <<"saving-focus", "save", "hiding", "hide", "hidden",
                   "showing", "show", "shown", "history", "layer",
                   "restoring-focus",
                   IF tr.isBack THEN "restore" ELSE "first",
                   "complete", "notify">>
            /\ transitionState = "complete"
    /\ done = "true" => transitionState = "idle"

\* a transition into Detail that loaded its content is about to return true
LoadedDetailCompletes ==
    /\ tpc = "finally"
    /\ tr.ok
    /\ tr.to = DETAIL_SCREEN
    /\ isLoaded
    /\ currentLayer = DETAIL_SCREEN

\* C6: a popLayer() called with no transition in progress and more than one
\* history entry goes back to the second-to-last entry; when it succeeds it
\* returns true, LayerHistory is the history of the call without its last
\* entry, and the current layer is the new last entry.
PopRemovesLastEntry ==
    [][(tpc = "finally" /\ tr.isBack /\ tr.ok)
         => /\ Len(tr.hist0) > 1
            /\ tr.to = tr.hist0[Len(tr.hist0) - 1]
            /\ layerHistory = Front(tr.hist0)
            /\ currentLayer = Last(layerHistory)
            /\ done' = "true"]_vars

\* C7: popLayer() called with no transition in progress and exactly one
\* history entry returns false, starts no transition, leaves LayerHistory
\* and the current layer unchanged and issues exactly one exit request.
RootPopRequestsExit ==
    [][(call'.op = "popLayer" /\ ~isTransitioning /\ Len(layerHistory) = 1)
         => /\ call'.ret = "false"
            /\ UNCHANGED <<lnmVars, transVars>>
            /\ call'.exits = 1]_vars

\* C7 as amended: the same, with exactly one exit request on a Tizen host
\* and none on a host without the Tizen application object.
RootPopRequestsExitOnTizen ==
    [][(call'.op = "popLayer" /\ ~isTransitioning /\ Len(layerHistory) = 1)
         => /\ call'.ret = "false"
            /\ UNCHANGED <<lnmVars, transVars>>
            /\ call'.exits = IF isTizen THEN 1 ELSE 0]_vars

\* popLayer() was called at the root on a Tizen host and asked for the exit
RootPopOnTizen ==
    /\ call.op = "popLayer"
    /\ call.ret = "false"
    /\ call.exits = 1
    /\ isTizen
    /\ layerHistory = <<MAP>>
    /\ ~isTransitioning

\* C8: from Dashboard, pushLayer(Detail) followed by popLayer() ends on
\* Dashboard with the LayerHistory of before the push.
PushThenPopRestores ==
    (tpc = "finally" /\ tr.ok /\ scen.stage = "popping")
      => /\ currentLayer = CONTROL_PANEL
         /\ layerHistory = scen.hist

\* C9: when a step throws, the steps after it are skipped and no observer is
\* notified; the call returns false, isTransitioning is false and
\* TransitionState is Idle afterwards; the layer and the history written
\* before the throw stay as they are.
ThrowAbandonsTransition ==
    [][/\ (\E i \in 1..Len(tlog) : tlog[i] = "throw")
            => (tpc = "finally" /\ Last(tlog) = "throw")
       /\ (tpc = "finally" /\ ~tr.ok)
            => /\ Last(tlog) = "throw"
               /\ ~notified
               /\ done' = "false"
               /\ ~isTransitioning'
               /\ transitionState' = "idle"
               /\ tpc' = "idle"
               /\ UNCHANGED <<currentLayer, layerHistory>>
               /\ (\E i \in 1..Len(tlog) : tlog[i] = "layer")
                    => currentLayer' = tr.to]_vars

\* a transition failed in its focus step, after it had changed the layer
FailedAfterLayerChange ==
    /\ done = "false"
    /\ ~isTransitioning
    /\ transitionState = "idle"
    /\ currentLayer = CONTROL_PANEL
    /\ layerHistory = <<MAP, CONTROL_PANEL>>
    /\ focused = NoFocus

\* C10: every Back press, in whichever spelling or channel it arrives (the
\* code 10009, the key name XF86Back or Back with any code, the hardware
\* key 'back') and whether or not the handler is enabled or busy, has its
\* platform default suppressed.
BackDefaultSuppressed ==
    (\/ /\ ev.ch = "keydown"
        /\ (ev.keyCode = 10009 \/ ev.key \in {"XF86Back", "Back"})
     \/ /\ ev.ch = "tizenhwkey"
        /\ ev.key = "back")
      => ev.prevented

\* C11: key repeats delivered within one debounce window (from the
\* acceptance of a key until the timer set after its handler has completed
\* fires) dispatch nothing, on the keydown channel and on the hardware-key
\* channel alike: the window holds at most the one dispatched action that
\* opened it.
OneDispatchPerWindow ==
    [][(keyPc # "idle" /\ ev'.ch # "none")
         => /\ ~ev'.accepted
            /\ ev'.override = "none"
            /\ ev'.handler = "none"
            /\ keyPc' = keyPc]_vars

\* a hardware-key repeat is dropped while the handler of the accepted key
\* still awaits its transition
RepeatDroppedDuringHandler ==
    /\ ev.ch = "tizenhwkey"
    /\ ~ev.accepted
    /\ isEnabled
    /\ keyPc = "awaitTransition"

\* C12: a key event that arrives while the dispatcher is disabled or
\* isProcessing is set invokes no override and no default handler and
\* leaves isProcessing, the pending timer and every other field unchanged;
\* and a step that delivers no key event invokes no handler either
\* (nothing was queued).
DroppedNotQueued ==
    [][/\ (ev'.ch # "none" /\ (~isEnabled \/ isProcessing))
           => /\ ~ev'.accepted
              /\ ev'.override = "none"
              /\ ev'.handler = "none"
              /\ call' = NoCall
              /\ UNCHANGED <<lnmVars, transVars, iframeVars, focusVars,
                             handlerVars>>
       /\ ev'.ch = "none"
           => /\ ev' = NoEvent
              /\ call' = NoCall
              /\ UNCHANGED <<lnmVars, iframeVars, focusVars>>]_vars

\* a confirm key for which an override is registered arrives inside the
\* window of an earlier key: the override is not called
DroppedWithOverrideRegistered ==
    /\ ev.ch = "keydown"
    /\ ev.key = "Enter"
    /\ ~ev.accepted
    /\ isEnabled
    /\ isProcessing
    /\ keyPc = "debounce"
    /\ keyListeners["Enter"] = "handled"

\* C13: when an override or default handler throws, nothing more is
\* handled for that key press (no default handler after a throwing
\* override, no navigation call, no change of layer, content or focus), the
\* debounce timer is set all the same, and isProcessing becomes false when
\* it fires, after which an enabled dispatcher accepts keys again.
ThrowKeepsDebounce ==
    /\ [][ev'.threw
            => /\ keyPc' = "debounce"
               /\ isProcessing'
               /\ ev'.override = "throws" => ev'.handler = "none"
               /\ call' = NoCall
               /\ UNCHANGED <<lnmVars, iframeVars, focusVars>>]_vars
    /\ (ev.threw ~> (keyPc = "idle" /\ ~isProcessing))

\* an override handler registered for the Back key has thrown
OverrideThrewOnBack ==
    /\ ev.accepted
    /\ ev.normalized.keyCode = 10009
    /\ ev.override = "throws"
    /\ ev.threw
    /\ keyPc = "debounce"

\* C14: for an accepted key the override that is called is the one
\* registered under the key's logical name, else the one registered under
\* its numeric code; if it reports handled no default handler runs; if
\* none is registered or it reports not handled, the default handler that
\* runs is the one the key's code selects, and no other.
OverrideBeforeDefault ==
    ev.accepted =>
      LET byName == IF ev.normalized.key \in DOMAIN keyListeners
                    THEN keyListeners[ev.normalized.key] ELSE "none"
          code == ToString(ev.normalized.keyCode)
          byCode == IF code \in DOMAIN keyListeners
                    THEN keyListeners[code] ELSE "none"
          registered == IF byName # "none" THEN byName ELSE byCode
          selected ==
              CASE ev.normalized.keyCode \in 37..40 -> "handleArrowKey"
                [] ev.normalized.keyCode = 13 -> "handleEnterKey"
                [] ev.normalized.keyCode \in {27, 10009} -> "handleBackKey"
                [] ev.normalized.keyCode \in {447, 448} -> "handleVolumeKey"
                [] ev.normalized.keyCode \in 48..57 -> "handleNumberKey"
                [] OTHER -> "none"
      IN  /\ ev.override = registered
          /\ registered = "handled" => ev.handler = "none"
          /\ registered \in {"none", "unhandled"} => ev.handler = selected

\* a confirm key is handled by an override registered under its numeric
\* code only
HandledByCodeOverride ==
    /\ ev.accepted
    /\ ev.normalized.keyCode = 13
    /\ keyListeners["Enter"] = "none"
    /\ keyListeners["13"] = "handled"
    /\ ev.override = "handled"
    /\ ev.handler = "none"

\* C15: for every accepted key event the platform default is suppressed
\* when the key is a directional, confirm or back key, in whatever raw
\* spelling it was accepted, and is not suppressed when the key is a
\* numeric or media key.
DefaultSuppressedByKind ==
    ev.accepted =>
      /\ ev.normalized.keyCode \in (37..40) \cup {13, 27, 10009}
           => ev.prevented
      /\ ev.normalized.keyCode \in (48..57) \cup {415, 19, 413, 412, 417}
           => ~ev.prevented

\* C16: at the RestoringFocus step a back-navigation ends with the focus on
\* the item that was focused when the target layer was left, if that item
\* is still in the document, and a forward navigation ends with the focus
\* on the first focusable item of the target layer whatever FocusState is
\* saved for it.
BackRestoresForwardFirst ==
    [][(fstep \in {"back", "forward"} /\ fstep' = "idle")
         => LET state == focusStateMap[fmCurrentLayer]
                first == getFirstFocusable(fmCurrentLayer)
            IN  /\ (fstep = "back" /\ state.saved /\ dom[state.el] # "removed")
                      => currentFocusedElement' = state.el
                /\ (fstep = "forward" /\ first # NoElement)
                      => currentFocusedElement' = first]_vars

\* C17: restore(layer) focuses the result of the first of these strategies
\* that yields a live item of the layer: the saved domain key (data-stt),
\* the saved stable identifier (id), the saved ordinal index if within
\* bounds, the first focusable item; when none yields one it focuses
\* nothing and returns false.
RestoreFallbackOrder ==
    [][(fstep = "back" /\ fstep' = "idle"
        /\ focusStateMap[fmCurrentLayer].saved)
         => LET state == focusStateMap[fmCurrentLayer]
                live == FocusableSet(fmCurrentLayer)
                key == IF state.elementSelector.kind = "stt"
                       THEN state.elementSelector.stt ELSE state.screenSTT
                byKey == {e \in live : key # NoStt /\ Elements[e].stt = key}
                byId == {e \in live : /\ state.elementSelector.kind = "id"
                                      /\ Elements[e].id
                                           = state.elementSelector.id}
                list == getFocusableElements(fmCurrentLayer)
                byIndex == IF state.elementIndex \in 0..(Len(list) - 1)
                           THEN {list[state.elementIndex + 1]} ELSE {}
                result == IF byKey # {} THEN byKey
                          ELSE IF byId # {} THEN byId
                          ELSE IF byIndex # {} THEN byIndex
                          ELSE IF Len(list) > 0 THEN {list[1]} ELSE {}
            IN  IF result = {}
                THEN /\ fm'.returned = "false"
                     /\ UNCHANGED <<currentFocusedElement, activeElement>>
                ELSE /\ fm'.returned = "true"
                     /\ currentFocusedElement' \in result]_vars

\* C18: restore(layer) commits focus only to a live item: whenever it
\* returns true the item it focused is in the document, displayed, and a
\* focusable item of that layer.
RestoreCommitsToLiveItem ==
    [][(fstep = "back" /\ fstep' = "idle" /\ fm'.returned = "true")
         => /\ currentFocusedElement' \in ElementIds
            /\ dom[currentFocusedElement'] = "visible"
            /\ Elements[currentFocusedElement'].layer = fmCurrentLayer
            /\ Elements[currentFocusedElement'].focusable]_vars

\* C19: restore(layer) never throws: for every saved FocusState and every
\* content of the document it returns true or false.
RestoreNeverThrows ==
    [][(fstep = "back" /\ fstep' = "idle")
         => /\ ~fm'.threw
            /\ fm'.returned \in {"true", "false"}]_vars

\* C20: when the focused item (the tracked one, or the element that has
\* the focus when none is tracked) is in the document and displayed at the
\* time refresh(layer) runs, refresh changes neither the tracked reference
\* nor the element that has the focus, nor the scroll offset, nor any saved
\* FocusState.
RefreshKeepsValidFocus ==
    [][LET item == IF currentFocusedElement # NoElement
                   THEN currentFocusedElement ELSE activeElement
       IN  (/\ fm'.op = "refresh"
            /\ item # NoElement
            /\ dom[item] = "visible"
            /\ Elements[item].layer = fmCurrentLayer)
             => UNCHANGED <<currentFocusedElement, activeElement, scrollTop,
                            focusStateMap>>]_vars

\* refresh has run after a render removed the widget of the detail layer
\* while the tile M4 was focused and the dashboard was scrolled back to the
\* top, with a FocusState saved for the dashboard: the focus stays on M4
RefreshKeptFocusedTile ==
    /\ fm.op = "refresh"
    /\ fm.returned = "kept"
    /\ fmCurrentLayer = "dashboard"
    /\ currentFocusedElement = 4
    /\ activeElement = 4
    /\ scrollTop = 0
    /\ dom[5] = "removed"
    /\ focusStateMap["dashboard"].saved
    /\ focusStateMap["dashboard"].el = 3

\* C21: when the focused item is gone as refreshFocusableElements runs, the
\* tracked focus reference is afterwards empty or an item of the registry
\* (a displayed focusable item of the current layer), never a stale handle
RefreshLeavesLiveOrEmpty ==
    (fm.op = "refresh" /\ fm.returned # "kept")
        => \/ currentFocusedElement = NoElement
           \/ currentFocusedElement \in FocusableSet(fmCurrentLayer)

SentinelIgnoresMove ==
    (/\ nav.op = "moveFocus"
     /\ nav.from # -1
     /\ navAttr(screensLength, nav.from, nav.direction) = NoNeighbor)
        => (nav.target = NoNeighbor /\ focusedIndex = nav.from)

\* C24: the tile that moveFocus hands to setFocus is none or has an index
\* in [0, count) of the focusable tiles; with no tile, and with one tile
\* that has the focus, every direction yields none and the focus stays
\* where it is
MoveTargetInRange ==
    nav.op = "moveFocus" =>
        /\ nav.target = NoNeighbor \/ nav.target \in 0..(screensLength - 1)
        /\ screensLength = 0 =>
              (nav.target = NoNeighbor /\ focusedIndex = nav.from)
        /\ (screensLength = 1 /\ nav.from = 0) =>
              (nav.target = NoNeighbor /\ focusedIndex = nav.from)

\* Down was pressed on the only tile of the dashboard: no tile is targeted
DownOnSingleTile ==
    /\ nav.op = "moveFocus"
    /\ nav.direction = "down"
    /\ screensLength = 1
    /\ nav.from = 0
    /\ nav.target = NoNeighbor
    /\ ~nav.returned
    /\ focusedIndex = 0

\* C25: in the grid, Down from index i yields i + columns when that index
\* exists; otherwise it yields the last tile (count - 1) when the last row
\* is a partial row, and nothing when it is not
DownClampsToLast ==
    \A index \in 0..(screensLength - 1) :
        LET columns == calculateLayout(screensLength).columns
        IN  navAttr(screensLength, index, "down") =
                IF index + columns < screensLength THEN index + columns
                ELSE IF screensLength % columns # 0 THEN screensLength - 1
                ELSE NoNeighbor

\* C26: Up yields index - columns in a row below the first, Left yields
\* index - 1 right of the first column, Right yields index + 1 left of the
\* last column when that tile exists, and nothing otherwise; the neighbour
\* attributes and the move that a key performs both agree with this
UpLeftRightFormulas ==
    LET columns == calculateLayout(screensLength).columns
        expected(index, direction) ==
            CASE direction = "up" ->
                   IF index \div columns > 0 THEN index - columns
                   ELSE NoNeighbor
              [] direction = "left" ->
                   IF index % columns > 0 THEN index - 1 ELSE NoNeighbor
              [] direction = "right" ->
                   IF index % columns < columns - 1
                      /\ index + 1 < screensLength
                   THEN index + 1
                   ELSE NoNeighbor
    IN  /\ \A index \in 0..(screensLength - 1) :
              \A direction \in {"up", "left", "right"} :
                navAttr(screensLength, index, direction) =
                    expected(index, direction)
        /\ (/\ nav.op = "moveFocus"
            /\ nav.from # -1
            /\ nav.direction \in {"up", "left", "right"})
               => /\ nav.target = expected(nav.from, nav.direction)
                  /\ focusedIndex = IF nav.target = NoNeighbor
                                    THEN nav.from ELSE nav.target

\* C27: every accepted raw spelling of a logical key (its reliable code,
\* its name with the code 0 or 229, a vendor synonym of the name, its
\* hardware-key name) normalizes to the same pair of key and keyCode as
\* the spelling with the reliable code and the standard name
SpellingsNormalizeAlike ==
    LET group(code, name, names, codes, hw) ==
            [code |-> code, name |-> name, names |-> names, codes |-> codes,
             hw |-> hw]
        groups ==
            {group(ARROW_UP, "ArrowUp", {"ArrowUp", "Up"},
                   {ARROW_UP, 0, 229}, {}),
             group(ARROW_DOWN, "ArrowDown", {"ArrowDown", "Down"},
                   {ARROW_DOWN, 0, 229}, {}),
             group(ARROW_LEFT, "ArrowLeft", {"ArrowLeft", "Left"},
                   {ARROW_LEFT, 0, 229}, {}),
             group(ARROW_RIGHT, "ArrowRight", {"ArrowRight", "Right"},
                   {ARROW_RIGHT, 0, 229}, {}),
             group(ENTER, "Enter", {"Enter", "Return"}, {ENTER, 0, 229}, {}),
             group(BACK, "XF86Back", {"XF86Back", "Back"}, {BACK, 0, 229},
                   {"back"}),
             group(VOLUME_UP, "VolumeUp", {"VolumeUp"}, {VOLUME_UP},
                   {"VolumeUp"}),
             group(VOLUME_DOWN, "VolumeDown", {"VolumeDown"}, {VOLUME_DOWN},
                   {"VolumeDown"})}
            \cup {group(NUM_0 + d, ToString(d), {ToString(d)},
                        {NUM_0 + d, 0, 229}, {}) : d \in 0..9}
        canonical(g) ==
            LET n == normalizeKeyCode([keyCode |-> g.code, key |-> g.name])
            IN  [key |-> n.key, keyCode |-> n.keyCode]
    IN  ev.accepted =>
          \A g \in groups :
            (\/ /\ ev.ch = "keydown"
                /\ ev.keyCode \in g.codes
                /\ ev.key \in g.names
             \/ /\ ev.ch = "tizenhwkey"
                /\ ev.key \in g.hw)
              => ev.normalized = canonical(g)

\* C28: a Back action from any source (the key names XF86Back and Back,
\* the code 10009, the escape key, the hardware-key channel) normalizes to
\* the one logical key Back and is routed to handleBackKey
BackIsOneLogicalKey ==
    (/\ ev.accepted
     /\ \/ /\ ev.ch = "keydown"
            /\ \/ ev.key \in {"XF86Back", "Back"}
               \/ ev.keyCode = BACK
               \/ ev.keyCode \in {ESCAPE, 0, 229} /\ ev.key = "Escape"
        \/ /\ ev.ch = "tizenhwkey"
            /\ ev.key = "back")
        => /\ ev.normalized.key = "Back"
           /\ ev.handler = "handleBackKey"

\* C29: a keydown event with a code other than 0 and 229 keeps that code,
\* whatever its name; with the code 0 or 229 the code is the one that
\* KEY_NAME_MAP holds for the name, if any
ReliableCodeKept ==
    (ev.accepted /\ ev.ch = "keydown") =>
        IF ev.keyCode \notin {0, 229}
        THEN ev.normalized.keyCode = ev.keyCode
        ELSE ev.normalized.keyCode =
                 IF KEY_NAME_MAP(ev.key) # Undefined
                 THEN KEY_NAME_MAP(ev.key)
                 ELSE ev.keyCode

LoadRejectedAbortsPush ==
    [][(/\ tpc = "finally"
        /\ tpc' = "idle"
        /\ tr.to = DETAIL_SCREEN
        /\ ~tr.isBack
        /\ Len(tlog) >= 2
        /\ tlog[Len(tlog) - 1] = "open"
        /\ tlog[Len(tlog)] = "throw")
       => /\ done' = "false"
          /\ ~notified
          /\ notifications = <<>>
          /\ Cardinality({i \in DOMAIN tlog : tlog[i] = "open"}) = 1
          /\ isTransitioning' = FALSE
          /\ currentLayer' = tr.from
          /\ layerHistory' = tr.hist0]_vars

\* C32: every transition that starts ends, whether it succeeds, a step
\* throws or the content never loads: isTransitioning returns to false and
\* TransitionState to Idle
TransitionEnds ==
    isTransitioning
      ~> (~isTransitioning /\ transitionState = TransitionState.IDLE)

\* a push into Detail has ended after its content failed to load: the frame
\* is there and not loaded
EndedAfterLoadFailure ==
    /\ done = "false"
    /\ ~isTransitioning
    /\ transitionState = TransitionState.IDLE
    /\ tpc = "idle"
    /\ currentLayer = CONTROL_PANEL
    /\ iframeElement # 0
    /\ ~isLoaded

\* C33: a Back message of the content that arrives when no transition is
\* in progress triggers back navigation once: one popLayer transition, or
\* at the root of the history one exit request, and nothing more
BackMessageNavigatesOnce ==
    [][/\ (msgPc = "idle" /\ msgPc' = "second" /\ ~isTransitioning)
            => IF Len(layerHistory) <= 1
               THEN call'.ret = "false" /\ call'.exits = 1
               ELSE call'.ret = "pending" /\ call'.exits = 0
       /\ (msgPc = "second" /\ msgPc' = "idle")
            => call'.ret = "false" /\ call'.exits = 0]_vars

\* C34: when the dashboard is rendered again while a tile has the focus and
\* the tile of the same screen is there after the render, the focus is on
\* that tile once the render and the timer it set have finished
RerenderKeepsFocusedTile ==
    [][(/\ nav.op = "render"
        /\ nav.from \in 0..(screensLength - 1)
        /\ autoFocusTimers = 1
        /\ autoFocusTimers' = 0)
       => focusedIndex' = nav.from]_vars

\* C35: while a layer transition is in progress no key press is dispatched
\* to a default handler, whatever started the transition
NoDispatchWhileTransitioning ==
    [][(ev'.accepted /\ ev'.handler # "none") => ~isTransitioning]_vars

\* C36: the history never holds a layer twice (so it has at most 3
\* entries), and popLayer at the Map layer finds the root of the history:
\* it starts no transition and requests the exit
HistoryHoldsNoLayerTwice ==
    [][/\ \A i, j \in DOMAIN layerHistory' :
            i # j => layerHistory'[i] # layerHistory'[j]
       /\ Len(layerHistory') <= 3
       /\ (call'.op = "popLayer" /\ ~isTransitioning /\ currentLayer = MAP)
            => (call'.ret = "false" /\ call'.exits = handleExitApp)]_vars

\* C37: when pushLayer(Detail, {screenSTT}) returns true the content of
\* screenSTT is loaded (isLoaded, currentScreenSTT = screenSTT); a push
\* whose content could not be opened (unknown screen, failed load) does not
\* end with Detail as the current layer
PushedDetailIsLoaded ==
    [][(/\ tpc = "finally"
        /\ tpc' = "idle"
        /\ tr.to = DETAIL_SCREEN
        /\ ~tr.isBack
        /\ tr.stt # 0)
       => LET steps == {tlog[i] : i \in DOMAIN tlog}
              opened == "loaded" \in steps
          IN  /\ tr.ok => (isLoaded' /\ currentScreenSTT' = tr.stt)
              /\ ~opened => currentLayer' # DETAIL_SCREEN]_vars

\* C38: whenever no transition is in progress and the current layer is not
\* Detail, no content is loaded and no content frame exists
NoContentOutsideDetail ==
    (~isTransitioning /\ currentLayer # DETAIL_SCREEN)
        => (~isLoaded /\ iframeElement = 0)

\* C39: at any time at most one content frame exists, and whenever isLoaded
\* is true, currentScreenSTT is the screen of the frame held in
\* iframeElement
OneFrameAndItIsTheCurrent ==
    /\ Cardinality(frames) <= 1
    /\ isLoaded => currentScreenSTT = iframeElement

====
